---- MODULE Spec2Model ----
(***************************************************************************)
(* A model of the DNS and GTP-C codecs of dpkt-gtpc (dpkt/dns.py,          *)
(* dpkt/gtp_c.py).  Byte strings are sequences of integers 0..255, Python  *)
(* offsets are 0-based (buf[off] is written At(buf, off)).                 *)
(***************************************************************************)
EXTENDS Integers, Sequences, FiniteSets, TLC

(***************************************************************************)
(* Bounds of the model.                                                    *)
(***************************************************************************)
\* longest buffer handed to unpack_name
MaxBuf == 5
\* how many flag setters are called on one DNS header
MaxSets == 2
\* longest value of a constructed GTP information element
MaxData == 3
\* longest byte string handed to the IE decoders
MaxWire == 5
\* how many flag setters are called on one GTPv2 IE
MaxIESets == 2
\* most IEs in a constructed GTP message
MaxIEs == 2
\* longest IE payload of a received GTP message
MaxPayload == 4
\* most answer records in a constructed DNS message
MaxRRs == 2
\* most labels before the terminator of a long DNS name
MaxLabels == 4
MaxGtpSets == 3
MaxCalls == 3
MaxEdits == 2

(***************************************************************************)
(* Byte-string helpers (Python slicing, struct.pack / struct.unpack).      *)
(***************************************************************************)
\* buf[off], 0-based
At(buf, off) == buf[off + 1]

\* buf[a:b], 0-based, clipped to the buffer like a Python slice
Slice(buf, a, b) ==
    LET hi == IF b < Len(buf) THEN b ELSE Len(buf)
    IN  IF a >= hi THEN <<>> ELSE SubSeq(buf, a + 1, hi)

\* buf[a:]
SliceFrom(buf, a) == Slice(buf, a, Len(buf))

\* struct.pack('>H', n) for 0 <= n < 65536
PackH(n) == << n \div 256, n % 256 >>

\* struct.unpack('>H', b)[0] for a 2-byte b
UnpackH(b) == b[1] * 256 + b[2]

\* x & m, x | m on naturals, bit by bit
RECURSIVE BitAnd(_, _)
BitAnd(x, m) ==
    IF x = 0 \/ m = 0 THEN 0
    ELSE (IF x % 2 = 1 /\ m % 2 = 1 THEN 1 ELSE 0) + 2 * BitAnd(x \div 2, m \div 2)

RECURSIVE BitOr(_, _)
BitOr(x, m) ==
    IF x = 0 THEN m
    ELSE IF m = 0 THEN x
    ELSE (IF x % 2 = 1 \/ m % 2 = 1 THEN 1 ELSE 0) + 2 * BitOr(x \div 2, m \div 2)

\* x & ~m for naturals x, m (Python's ~m is the infinite-width complement)
BitClear(x, m) == x - BitAnd(x, m)

\* b'.'.join(labels)
RECURSIVE JoinDot(_)
JoinDot(labels) ==
    IF Len(labels) = 0 THEN <<>>
    ELSE IF Len(labels) = 1 THEN labels[1]
    ELSE labels[1] \o <<46>> \o JoinDot(Tail(labels))

(***************************************************************************)
(* State.                                                                  *)
(***************************************************************************)
VARIABLES
    un,     \* the locals of one running unpack_name(buf, off) call
    op,     \* DNS.op, the 16-bit flags word of a DNS header
    lastSet, \* history: the setter calls made on the header, latest first
    ie,     \* one GTP information element object (IEv1 or IEv2)
    ieSets, \* history: the cr_flag / instance setter calls on ie, latest first
    wire,   \* the outcome of bytes(ie), or the bytes received for decoding
    dec,    \* the outcome of IEv1(wire) / IEv2(wire)
    m,      \* one GTPv1C / GTPv2C message object
    mwire,  \* the outcome of bytes(m), or the bytes received for decoding
    mdec,   \* the outcome of GTPv1C(mwire) / GTPv2C(mwire)
    mout,   \* the outcome of bytes() of the decoded message
    dns,    \* one DNS message object built from fields
    dwire,  \* the outcome of bytes(dns), or the bytes received for decoding
    ddec,   \* the outcome of DNS(dwire)
    dout    \* the outcome of bytes() of the decoded DNS message

vars == << un, op, lastSet, ie, ieSets, wire, dec, m, mwire, mdec, mout,
           dns, dwire, ddec, dout >>

\* the parts of the state a specification does not use
NoCall == [status |-> "idle"]
IdleName == un = NoCall
IdleFlags == op = 0 /\ lastSet = <<>>
NoObject == [cls |-> "none"]
NoResult == [status |-> "none"]
IdleIE == ie = NoObject /\ ieSets = <<>> /\ wire = NoResult /\ dec = NoResult
ieVars == << ie, ieSets, wire, dec >>
IdleGtp == m = NoObject /\ mwire = NoResult /\ mdec = NoResult /\ mout = NoResult
gtpVars == << m, mwire, mdec, mout >>
IdleDns == dns = NoObject /\ dwire = NoResult /\ ddec = NoResult /\ dout = NoResult
dnsVars == << dns, dwire, ddec, dout >>

(***************************************************************************)
(* dns.py: unpack_name                                                     *)
(***************************************************************************)
\* the label-length / pointer bytes the model draws buffers from:
\* terminator, a one-byte label length, an invalid length (0x40), 'a', 0xc0
NameBytes == {0, 1, 64, 97, 192}

RECURSIVE SeqsUpTo(_, _)
SeqsUpTo(S, n) ==
    IF n = 0 THEN { <<>> }
    ELSE LET shorter == SeqsUpTo(S, n - 1)
         IN  shorter \cup { Append(s, b) : s \in { t \in shorter : Len(t) = n - 1 }, b \in S }

NameBufs == SeqsUpTo(NameBytes, MaxBuf)

\* the state of the call at its first loop test
UnpackNameStart(buf, off) ==
    [ buf |-> buf, off |-> off, name |-> <<>>, saved_off |-> 0,
      start_off |-> off, name_length |-> 0,
      status |-> "run", msg |-> "", result |-> <<>>,
      \* history: the call's argument and the pointer targets followed so far
      arg_off |-> off, jumps |-> <<>> ]

\* the 14-bit target of the pointer at the cursor
PtrAt(s) == BitAnd(UnpackH(Slice(s.buf, s.off, s.off + 2)), 16383)

\* a plausible slip: the pointer check is left out and every pointer is followed
BadPointerNever(ptr, start_off) == FALSE

\* a plausible slip: only a forward pointer is refused, a self-reference is not
BadPointerForwardOnly(ptr, start_off) == ptr > start_off

\* the guard of the pointer branch that raises
BadPointer(ptr, start_off) == ptr >= start_off

\* a UTF-8 continuation byte
Utf8Cont(b) == b >= 128 /\ b <= 191

\* how many continuation bytes the lead byte b announces; -1 for a byte that
\* cannot start a character (0x80..0xc1, 0xf5..0xff)
Utf8Need(b) ==
    IF b < 128 THEN 0
    ELSE IF b >= 194 /\ b <= 223 THEN 1
    ELSE IF b >= 224 /\ b <= 239 THEN 2
    ELSE IF b >= 240 /\ b <= 244 THEN 3
    ELSE 0 - 1

\* the range of the byte that follows lead byte b (no overlong forms, no
\* surrogates, nothing above U+10FFFF)
Utf8SecondOk(b, c) ==
    /\ c >= (IF b = 224 THEN 160 ELSE IF b = 240 THEN 144 ELSE 128)
    /\ c <= (IF b = 237 THEN 159 ELSE IF b = 244 THEN 143 ELSE 191)

\* whether codecs.decode(s, 'utf-8') succeeds (strict decoding): every byte
\* that is no continuation byte starts a complete character, and every
\* continuation byte belongs to the character started before it
Utf8Valid(s) ==
    \A i \in 1..Len(s) :
        IF Utf8Cont(s[i])
        THEN \E j \in 1..(i - 1) :
                /\ i - j <= Utf8Need(s[j])
                /\ \A k \in (j + 1)..i : Utf8Cont(s[k])
        ELSE /\ Utf8Need(s[i]) >= 0
             /\ i + Utf8Need(s[i]) <= Len(s)
             /\ \A k \in (i + 1)..(i + Utf8Need(s[i])) : Utf8Cont(s[k])
             /\ Utf8Need(s[i]) >= 1 => Utf8SecondOk(s[i], s[i + 1])

\* b'.'.join(name): the bytes of the name unpack_name returns (a str is
\* written as its UTF-8 bytes)
JoinedName(labels) == JoinDot(labels)

\* a plausible slip: the cap is compared one byte too late
NameTooLongOffByOne(name_length) == name_length > 256

\* `if name_length > 255`
NameTooLong(name_length) == name_length > 255

\* a plausible slip: the offset behind the last pointer followed is kept
SavedAtLastPointer(saved_off, off) == off

\* `if not saved_off: saved_off = off` behind a pointer: only the first one counts
SavedAtPointer(saved_off, off) == IF saved_off = 0 THEN off ELSE saved_off

\* one pass through the body of `while True`, or the return after `break`
UnpackNameStep(s) ==
    IF s.off >= Len(s.buf)
    THEN [s EXCEPT !.status = "NeedData"]
    ELSE LET n == At(s.buf, s.off) IN
         IF n = 0
         THEN LET off1 == s.off + 1
                  saved == IF s.saved_off = 0 THEN off1 ELSE s.saved_off
              IN  IF Utf8Valid(JoinedName(s.name))
                  THEN [s EXCEPT !.off = off1, !.saved_off = saved, !.status = "ok",
                                 !.result = << JoinedName(s.name), saved >>]
                  ELSE [s EXCEPT !.off = off1, !.saved_off = saved,
                                 !.status = "UnicodeDecodeError"]
         ELSE IF BitAnd(n, 192) = 192
         THEN IF Len(Slice(s.buf, s.off, s.off + 2)) < 2
              THEN [s EXCEPT !.status = "struct.error"]
              ELSE LET ptr == PtrAt(s) IN
                   IF BadPointer(ptr, s.start_off)
                   THEN [s EXCEPT !.status = "UnpackError",
                                  !.msg = "Invalid label compression pointer"]
                   ELSE [s EXCEPT !.saved_off = SavedAtPointer(s.saved_off, s.off + 2),
                                  !.start_off = ptr, !.off = ptr,
                                  !.jumps = Append(s.jumps, ptr)]
         ELSE IF BitAnd(n, 192) = 0
         THEN LET label == Slice(s.buf, s.off + 1, s.off + 1 + n)
                  nl    == s.name_length + n + 1
              IN  IF NameTooLong(nl)
                  THEN [s EXCEPT !.off = s.off + 1, !.name = Append(s.name, label),
                                 !.name_length = nl, !.status = "UnpackError",
                                 !.msg = "name longer than 255 bytes"]
                  ELSE [s EXCEPT !.off = s.off + 1 + n, !.name = Append(s.name, label),
                                 !.name_length = nl]
         ELSE [s EXCEPT !.status = "UnpackError", !.msg = "Invalid label length"]

\* the whole call: the final state of the loop
RECURSIVE UnpackNameRun(_)
UnpackNameRun(s) == IF s.status # "run" THEN s ELSE UnpackNameRun(UnpackNameStep(s))

unpack_name(buf, off) == UnpackNameRun(UnpackNameStart(buf, off))

InitName ==
    /\ \E buf \in NameBufs : \E off \in 0..Len(buf) : un = UnpackNameStart(buf, off)
    /\ IdleFlags /\ IdleIE /\ IdleGtp /\ IdleDns

NameLoop ==
    /\ un.status = "run"
    /\ un' = UnpackNameStep(un)
    /\ UNCHANGED << op, lastSet >>
    /\ UNCHANGED ieVars
    /\ UNCHANGED gtpVars
    /\ UNCHANGED dnsVars

NextName == NameLoop

SpecName == InitName /\ [][NextName]_vars

\* ---- long names: buffers of whole labels, read directly or through a pointer ----
\* a label of n bytes 'a' with its length byte
Label(n) == << n >> \o [i \in 1..n |-> 97]

LabelLens == {1, 62, 63}

\* the labels of the given lengths, one after the other
RECURSIVE Labels(_)
Labels(lens) == IF lens = <<>> THEN <<>> ELSE Label(lens[1]) \o Labels(Tail(lens))

\* a last label whose length byte announces more bytes than the buffer holds:
\* 63 announced and 2 held, 1 announced and none held
CutLabels == {<< 63, 97, 97 >>, << 1 >>}

\* unpack_name(labels + b'\0', 0), unpack_name(labels + a label cut short, 0), and
\* unpack_name(labels + b'\0' + more labels + b'\xc0\x00', offset of the second run)
InitLongName ==
    /\ \E a \in SeqsUpTo(LabelLens, MaxLabels) :
          \/ un = UnpackNameStart(Labels(a) \o <<0>>, 0)
          \/ \E c \in CutLabels : un = UnpackNameStart(Labels(a) \o c, 0)
          \/ \E b \in SeqsUpTo(LabelLens, 2) :
                un = UnpackNameStart(Labels(a) \o <<0>> \o Labels(b) \o <<192, 0>>,
                                     Len(Labels(a)) + 1)
    /\ IdleFlags /\ IdleIE /\ IdleGtp /\ IdleDns

SpecLongName == InitLongName /\ [][NextName]_vars

\* the decoded length of the labels read so far: the bytes each label holds
\* and one length byte each
RECURSIVE DecodedLength(_)
DecodedLength(labels) ==
    IF labels = <<>> THEN 0 ELSE Len(labels[1]) + 1 + DecodedLength(Tail(labels))

\* C11: unpack_name fails with UnpackError as soon as the labels read for one
\* name, each counted with its length byte, add up to more than 255 bytes, also
\* when the labels are reached through a compression pointer or the buffer ends
\* inside the last label; a name it returns is never longer than 255 bytes.
C11_NameLengthCap ==
    /\ DecodedLength(un.name) > 255 =>
          (un.status = "UnpackError" /\ un.msg = "name longer than 255 bytes")
    /\ un.status = "ok" => Len(un.result[1]) <= 255

\* the cap was hit by a label that was reached through a pointer
C11_Witness ==
    /\ un.status = "UnpackError" /\ un.msg = "name longer than 255 bytes"
    /\ DecodedLength(un.name) > 255
    /\ Len(un.jumps) = 1

(***************************************************************************)
(* C1: unpack_name refuses every pointer that does not point strictly      *)
(* before the segment being read.                                          *)
(***************************************************************************)
\* the cursor is on a complete 2-byte compression pointer
ReadsPointer(s) ==
    /\ s.status = "run"
    /\ s.off + 2 <= Len(s.buf)
    /\ BitAnd(At(s.buf, s.off), 192) = 192

\* where the segment being read began: the name's own start offset before the
\* first jump, the previous pointer's target after it
SegmentStart(s) == IF s.jumps = <<>> THEN s.arg_off ELSE s.jumps[Len(s.jumps)]

\* C1: whenever unpack_name reads a compression pointer whose 14-bit target is
\* greater than or equal to the start offset of the segment being read (the
\* name's own start for the first pointer, the previous target for a later
\* one), the call fails with UnpackError and the pointer is not followed; a
\* pointer to offset 0 stored at offset 0 is one such case.
C1_PointerMustPointBackward ==
    [][ (ReadsPointer(un) /\ PtrAt(un) >= SegmentStart(un))
            => /\ un'.status = "UnpackError"
               /\ un'.msg = "Invalid label compression pointer"
               /\ un'.jumps = un.jumps ]_vars

\* a pointer reached through an earlier jump was refused, and it is the
\* self-reference "pointer to offset 0 stored at offset 0"
C1_Witness ==
    /\ un.status = "UnpackError"
    /\ un.msg = "Invalid label compression pointer"
    /\ Len(un.jumps) >= 1
    /\ un.off = 0
    /\ Slice(un.buf, 0, 2) = <<192, 0>>

(***************************************************************************)
(* dns.py: the flag views of DNS.op                                        *)
(***************************************************************************)
DNS_Z == 64
DNS_RA == 128
DNS_RD == 256
DNS_TC == 512
DNS_AA == 1024
DNS_QR == 32768

\* `if v:` on an integer or a bool
Truthy(v) == v # 0

\* the one-bit getters: int((self.op & FLAG) == FLAG)
FlagGet(o, flag) == IF BitAnd(o, flag) = flag THEN 1 ELSE 0

\* the one-bit setters: self.op |= FLAG, or self.op &= ~FLAG
FlagSet(o, flag, v) == IF Truthy(v) THEN BitOr(o, flag) ELSE BitClear(o, flag)

qr(o) == FlagGet(o, DNS_QR)
qr_setter(o, v) == FlagSet(o, DNS_QR, v)

opcode(o) == BitAnd(o \div 2048, 15)
opcode_setter(o, v) == BitOr(BitClear(o, 30720), BitAnd(v, 15) * 2048)

aa(o) == FlagGet(o, DNS_AA)
aa_setter(o, v) == FlagSet(o, DNS_AA, v)

tc(o) == FlagGet(o, DNS_TC)
tc_setter(o, v) == FlagSet(o, DNS_TC, v)

rd(o) == FlagGet(o, DNS_RD)
\* a plausible slip: the clear branch masks with the flag instead of its complement
rd_setter_slip(o, v) == IF Truthy(v) THEN BitOr(o, DNS_RD) ELSE BitAnd(o, DNS_RD)
rd_setter(o, v) == FlagSet(o, DNS_RD, v)

ra(o) == FlagGet(o, DNS_RA)
ra_setter(o, v) == FlagSet(o, DNS_RA, v)

zero(o) == FlagGet(o, DNS_Z)
zero_setter(o, v) == FlagSet(o, DNS_Z, v)

rcode(o) == BitAnd(o, 15)
rcode_setter(o, v) == BitOr(BitClear(o, 15), BitAnd(v, 15))

DnsProps == {"qr", "opcode", "aa", "tc", "rd", "ra", "zero", "rcode"}

\* getattr(dns, p)
DnsGet(p, o) ==
    CASE p = "qr" -> qr(o)  [] p = "opcode" -> opcode(o)  [] p = "aa" -> aa(o)
      [] p = "tc" -> tc(o)  [] p = "rd" -> rd(o)          [] p = "ra" -> ra(o)
      [] p = "zero" -> zero(o)  [] p = "rcode" -> rcode(o)

\* setattr(dns, p, v)
DnsSet(p, o, v) ==
    CASE p = "qr" -> qr_setter(o, v)  [] p = "opcode" -> opcode_setter(o, v)
      [] p = "aa" -> aa_setter(o, v)  [] p = "tc" -> tc_setter(o, v)
      [] p = "rd" -> rd_setter(o, v)  [] p = "ra" -> ra_setter(o, v)
      [] p = "zero" -> zero_setter(o, v)  [] p = "rcode" -> rcode_setter(o, v)

\* the bits of op a sub-field occupies
DnsMask(p) ==
    CASE p = "qr" -> DNS_QR  [] p = "opcode" -> 30720  [] p = "aa" -> DNS_AA
      [] p = "tc" -> DNS_TC  [] p = "rd" -> DNS_RD     [] p = "ra" -> DNS_RA
      [] p = "zero" -> DNS_Z [] p = "rcode" -> 15

\* the width in bits of a sub-field
DnsWidth(p) == IF p \in {"opcode", "rcode"} THEN 4 ELSE 1

\* the op words a header starts from: the captured response 0x8180, the
\* default DNS_RD, no bit set, every bit set, a response with AD and CD set
OpInits == {33152, 256, 0, 65535, 33200}

\* the values handed to the setters: False/0, True/1 and wider integers
FlagVals == {0, 1, 2, 5, 15, 16}

InitFlags ==
    /\ op \in OpInits
    /\ lastSet = <<>>
    /\ IdleName /\ IdleIE /\ IdleGtp /\ IdleDns

SetFlag(p) ==
    /\ Len(lastSet) < MaxSets
    /\ \E v \in FlagVals :
        /\ op' = DnsSet(p, op, v)
        /\ lastSet' = << [prop |-> p, v |-> v, before |-> op] >> \o lastSet
    /\ UNCHANGED un
    /\ UNCHANGED ieVars
    /\ UNCHANGED gtpVars
    /\ UNCHANGED dnsVars

Set_qr == SetFlag("qr")
Set_opcode == SetFlag("opcode")
Set_aa == SetFlag("aa")
Set_tc == SetFlag("tc")
Set_rd == SetFlag("rd")
Set_ra == SetFlag("ra")
Set_zero == SetFlag("zero")
Set_rcode == SetFlag("rcode")

NextFlags ==
    \/ Set_qr \/ Set_opcode \/ Set_aa \/ Set_tc
    \/ Set_rd \/ Set_ra \/ Set_zero \/ Set_rcode

SpecFlags == InitFlags /\ [][NextFlags]_vars

(***************************************************************************)
(* C4: the DNS flag setters touch only their own bits of op.               *)
(***************************************************************************)
\* 2^n
RECURSIVE Pow2(_)
Pow2(n) == IF n = 0 THEN 1 ELSE 2 * Pow2(n - 1)

\* the latest setter call left every other sub-field view, and every bit of op
\* outside the sub-field, as it was, and calling it again changes nothing
SetterFrame(c) ==
    /\ \A q \in DnsProps \ {c.prop} : DnsGet(q, op) = DnsGet(q, c.before)
    /\ BitClear(op, DnsMask(c.prop)) = BitClear(c.before, DnsMask(c.prop))
    /\ DnsSet(c.prop, op, c.v) = op

\* C4 (as stated): after setting a sub-field to v its getter returns v masked to
\* the sub-field's width, every other sub-field keeps its value, and setting
\* the same value again gives the same op.
C4_AsStated ==
    lastSet # <<>> =>
        LET c == lastSet[1] IN
        /\ DnsGet(c.prop, op) = c.v % Pow2(DnsWidth(c.prop))
        /\ SetterFrame(c)

\* C4 (amended): the getter of opcode and rcode returns v & 0xf; the getter of
\* a one-bit flag returns 1 when v is truthy (non-zero) and 0 otherwise; every
\* other sub-field and every other bit of op keeps its value; setting the same
\* value again gives the same op; from 0x8180, rd = 0 gives 0x8080 with qr 1.
C4_SettersAreIndependent ==
    lastSet # <<>> =>
        LET c == lastSet[1] IN
        /\ DnsGet(c.prop, op) = IF DnsWidth(c.prop) = 1
                                THEN (IF c.v # 0 THEN 1 ELSE 0)
                                ELSE c.v % 16
        /\ SetterFrame(c)
        /\ (c.before = 33152 /\ c.prop = "rd" /\ c.v = 0) => (op = 32896 /\ qr(op) = 1)

\* rd was cleared on the captured header 0x8180, after another setter ran
C4_Witness ==
    /\ Len(lastSet) = 2
    /\ lastSet[1].prop = "rd" /\ lastSet[1].v = 0
    /\ lastSet[1].before = 33152
    /\ op = 32896

(***************************************************************************)
(* dpkt.Packet, the base class of every header and IE: the fixed header    *)
(* fields are read from / written to the front of the buffer, the rest is  *)
(* self.data; a struct.error inside unpack becomes NeedData when the       *)
(* buffer is shorter than the header and UnpackError otherwise.            *)
(***************************************************************************)
\* Packet.__init__(buf): the exception raised for a struct.error in unpack
PacketInitError(buf, hdr_len) == IF Len(buf) < hdr_len THEN "NeedData" ELSE "UnpackError"

\* Packet.__bytes__: self.pack_hdr() + bytes(self.data)
PacketBytes(hdr, data) ==
    IF hdr.status # "ok" THEN hdr ELSE [hdr EXCEPT !.bytes = hdr.bytes \o data]

(***************************************************************************)
(* gtp_c.py: IEv1                                                          *)
(***************************************************************************)
TV_LEN_DICT ==
    (0 :> 0) @@ (1 :> 1) @@ (2 :> 8) @@ (3 :> 6) @@ (4 :> 4) @@ (5 :> 4) @@
    (8 :> 1) @@ (9 :> 28) @@ (11 :> 1) @@ (12 :> 3) @@ (13 :> 1) @@ (14 :> 1) @@
    (15 :> 1) @@ (16 :> 4) @@ (17 :> 4) @@ (18 :> 5) @@ (19 :> 1) @@ (20 :> 1) @@
    (21 :> 1) @@ (22 :> 9) @@ (23 :> 1) @@ (24 :> 1) @@ (25 :> 2) @@ (26 :> 2) @@
    (27 :> 2) @@ (28 :> 2) @@ (29 :> 1) @@ (127 :> 4)

\* an IE object; len_attr says whether the attribute len is unset, None or an
\* integer (IEv1 declares no len header field, IEv2 does)
IEObject(cls, type, len_attr, len, flags, data) ==
    [cls |-> cls, type |-> type, len_attr |-> len_attr, len |-> len,
     flags |-> flags, data |-> data]

\* IEv1(type=t, data=d): Packet.__init__ sets the header defaults and the keywords
IEv1_new(type, data) == IEObject("IEv1", type, "unset", 0, 0, data)

\* IEv1.encoding
IEv1_encoding(e) == BitAnd(e.type \div 128, 1)

\* IEv1.encoding = e: self.type = (self.type & ~0x80) | ((e & 0x1) << 7)
IEv1_encoding_setter(e, v) == [e EXCEPT !.type = BitOr(BitClear(e.type, 128), (v % 2) * 128)]

\* a plausible slip: every type is treated as TLV
IEv1_unpack_always_tlv(buf) ==
    IF Len(buf) < 1 THEN [status |-> PacketInitError(buf, 1)]
    ELSE IF Len(Slice(SliceFrom(buf, 1), 0, 2)) < 2 THEN [status |-> PacketInitError(buf, 1)]
    ELSE LET n == UnpackH(Slice(SliceFrom(buf, 1), 0, 2))
         IN  [status |-> "ok",
              ie |-> IEObject("IEv1", buf[1], "int", n, 0, Slice(SliceFrom(buf, 1), 2, 2 + n))]

\* IEv1(buf): Packet.__init__ running IEv1.unpack
IEv1_unpack(buf) ==
    IF Len(buf) < 1 THEN [status |-> PacketInitError(buf, 1)]
    ELSE LET type == buf[1]
             data == SliceFrom(buf, 1)
         IN  IF BitAnd(type \div 128, 1) = 1
             THEN IF Len(Slice(data, 0, 2)) < 2
                  THEN [status |-> PacketInitError(buf, 1)]
                  ELSE LET n == UnpackH(Slice(data, 0, 2))
                       IN  [status |-> "ok",
                            ie |-> IEObject("IEv1", type, "int", n, 0, Slice(data, 2, 2 + n))]
             ELSE IF type \in DOMAIN TV_LEN_DICT
                  THEN [status |-> "ok",
                        ie |-> IEObject("IEv1", type, "int", TV_LEN_DICT[type], 0,
                                        Slice(data, 0, TV_LEN_DICT[type]))]
                  \* dict.get gives None, and data[:None] is all of data
                  ELSE [status |-> "ok",
                        ie |-> IEObject("IEv1", type, "None", 0, 0, data)]

\* IEv1.pack_hdr
IEv1_pack_hdr(e) ==
    IF IEv1_encoding(e) = 1
    THEN IF e.len_attr = "unset" THEN [status |-> "AttributeError"]
         ELSE IF e.len_attr = "None" \/ e.len > 65535 THEN [status |-> "struct.error"]
         ELSE [status |-> "ok", bytes |-> <<e.type>> \o PackH(e.len)]
    ELSE [status |-> "ok", bytes |-> <<e.type>>]

\* bytes(ie) for an IEv1: Packet.__bytes__
IEv1_bytes(e) == PacketBytes(IEv1_pack_hdr(e), e.data)

\* IEv1.__len__
IEv1_len(e) == IF IEv1_encoding(e) = 1 THEN 1 + 2 + Len(e.data) ELSE 1 + Len(e.data)

(***************************************************************************)
(* gtp_c.py: IEv2                                                          *)
(***************************************************************************)
\* IEv2.cr_flag, IEv2.instance
cr_flag(e) == BitAnd(e.flags \div 16, 15)
instance(e) == BitAnd(e.flags, 15)

\* the cr_flag and instance setters: their body is `pass`
cr_flag_setter(e, c) == e
instance_setter(e, c) == e

\* IEv2(type=t, len=l, flags=f, cr_flag=c, instance=i, data=d): the header
\* fields, then the keywords through their setters
IEv2_new(type, len, flags, c, i, data) ==
    instance_setter(cr_flag_setter(IEObject("IEv2", type, "int", len, flags, data), c), i)

\* IEv2(buf): Packet.__init__ running IEv2.unpack
IEv2_unpack(buf) ==
    IF Len(buf) < 4 THEN [status |-> PacketInitError(buf, 4)]
    ELSE LET n == UnpackH(Slice(buf, 1, 3))
         IN  [status |-> "ok",
              ie |-> IEObject("IEv2", buf[1], "int", n, buf[4], Slice(SliceFrom(buf, 4), 0, n))]

\* a plausible slip: the stored len is packed, not the length of the value
IEv2_pack_hdr_stale_len(e) ==
    [status |-> "ok", bytes |-> <<e.type>> \o PackH(e.len) \o <<e.flags>>, ie |-> e]

\* IEv2.pack_hdr: sets self.len, then Packet.pack_hdr, which raises PackError
\* when len does not fit the 'H' of the header; ie is the object afterwards
IEv2_pack_hdr(e) ==
    LET e1 == [e EXCEPT !.len = Len(e.data)]
    IN  IF e1.len > 65535 THEN [status |-> "PackError", ie |-> e1]
        ELSE [status |-> "ok", bytes |-> <<e1.type>> \o PackH(e1.len) \o <<e1.flags>>,
              ie |-> e1]

\* bytes(ie) for an IEv2: Packet.__bytes__
IEv2_bytes(e) == PacketBytes(IEv2_pack_hdr(e), e.data)

\* a plausible slip: the length of the value alone, without the 4 header bytes
IEv2_len_of_value(e) == Len(e.data)

\* len(ie) for an IEv2: Packet.__len__
IEv2_len(e) == 4 + Len(e.data)

(***************************************************************************)
(* One information element: built or received, its flags set, encoded,     *)
(* decoded.                                                                *)
(***************************************************************************)
\* IE types the model builds: Reserved (TV, 0 bytes), Recovery (TV, 1 byte),
\* Packet Flow Id (TV, 2 bytes), 0x1e (no TV entry), APN 0x83 (TLV)
IEv1Types == {0, 14, 25, 30, 131}
\* IMSI, Bearer Context
IEv2Types == {1, 93}
\* value bytes
DataBytes == {5, 170}
IEDatas == SeqsUpTo(DataBytes, MaxData)
\* received bytes: lengths, types (14, 30, 131) and a value byte
WireBytes == {0, 1, 2, 14, 30, 131}
IEWires == SeqsUpTo(WireBytes, MaxWire)
\* stored len and flags of a constructed IEv2
StaleLens == {0, 7}
FlagBytes == {0, 33}
\* values handed to the cr_flag and instance setters
NibbleVals == {0, 3, 10, 19}
\* values handed to the encoding setter
EncodingVals == {0, 1, 2}

InitIE ==
    /\ \/ \E t \in IEv1Types, d \in IEDatas :
            /\ ie = IEv1_new(t, d)
            /\ wire = NoResult
       \/ \E t \in IEv2Types, l \in StaleLens, f \in FlagBytes, d \in IEDatas :
            /\ ie = IEv2_new(t, l, f, 0, 0, d)
            /\ wire = NoResult
       \/ \E cls \in {"IEv1", "IEv2"}, b \in IEWires :
            /\ ie = [cls |-> cls]
            /\ wire = [status |-> "ok", bytes |-> b]
    /\ ieSets = <<>>
    /\ dec = NoResult
    /\ IdleName /\ IdleFlags /\ IdleGtp /\ IdleDns

\* ie.cr_flag = c
IESetCrFlag ==
    /\ ie.cls = "IEv2" /\ wire = NoResult /\ Len(ieSets) < MaxIESets
    /\ \E c \in NibbleVals :
        /\ ie' = cr_flag_setter(ie, c)
        /\ ieSets' = << [prop |-> "cr_flag", v |-> c, before |-> ie] >> \o ieSets
    /\ UNCHANGED << wire, dec, un, op, lastSet, m, mwire, mdec, mout >>
    /\ UNCHANGED dnsVars

\* ie.instance = i
IESetInstance ==
    /\ ie.cls = "IEv2" /\ wire = NoResult /\ Len(ieSets) < MaxIESets
    /\ \E i \in NibbleVals :
        /\ ie' = instance_setter(ie, i)
        /\ ieSets' = << [prop |-> "instance", v |-> i, before |-> ie] >> \o ieSets
    /\ UNCHANGED << wire, dec, un, op, lastSet, m, mwire, mdec, mout >>
    /\ UNCHANGED dnsVars

\* ie.encoding = e
IESetEncoding ==
    /\ ie.cls = "IEv1" /\ wire = NoResult /\ Len(ieSets) < MaxIESets
    /\ \E e \in EncodingVals :
        /\ ie' = IEv1_encoding_setter(ie, e)
        /\ ieSets' = << [prop |-> "encoding", v |-> e, before |-> ie] >> \o ieSets
    /\ UNCHANGED << wire, dec, un, op, lastSet, m, mwire, mdec, mout >>
    /\ UNCHANGED dnsVars

\* bytes(ie) of a constructed IEv1
IEv1Encode ==
    /\ ie.cls = "IEv1" /\ wire = NoResult
    /\ wire' = IEv1_bytes(ie)
    /\ UNCHANGED << ie, ieSets, dec, un, op, lastSet, m, mwire, mdec, mout >>
    /\ UNCHANGED dnsVars

\* bytes(ie) of a constructed IEv2; pack_hdr stores len on the object
IEv2Encode ==
    /\ ie.cls = "IEv2" /\ wire = NoResult
    /\ LET after(r) ==
               /\ wire' = IF r.status = "ok" THEN [status |-> "ok", bytes |-> r.bytes]
                           ELSE [status |-> r.status]
               /\ ie' = r.ie
       IN  after(IEv2_bytes(ie))
    /\ UNCHANGED << ieSets, dec, un, op, lastSet, m, mwire, mdec, mout >>
    /\ UNCHANGED dnsVars

\* IEv1(wire)
IEv1Decode ==
    /\ ie.cls = "IEv1" /\ wire.status = "ok" /\ dec = NoResult
    /\ dec' = IEv1_unpack(wire.bytes)
    /\ UNCHANGED << ie, ieSets, wire, un, op, lastSet, m, mwire, mdec, mout >>
    /\ UNCHANGED dnsVars

\* IEv2(wire)
IEv2Decode ==
    /\ ie.cls = "IEv2" /\ wire.status = "ok" /\ dec = NoResult
    /\ dec' = IEv2_unpack(wire.bytes)
    /\ UNCHANGED << ie, ieSets, wire, un, op, lastSet, m, mwire, mdec, mout >>
    /\ UNCHANGED dnsVars

NextIE ==
    \/ IESetCrFlag \/ IESetInstance \/ IESetEncoding
    \/ IEv1Encode \/ IEv2Encode
    \/ IEv1Decode \/ IEv2Decode

SpecIE == InitIE /\ [][NextIE]_vars

\* the IE was constructed from fields (not received as bytes)
Constructed(e) == "type" \in DOMAIN e

(***************************************************************************)
(* C5: the cr_flag and instance setters of a GTPv2 IE.                     *)
(***************************************************************************)
\* C5: assigning cr_flag = c makes the cr_flag getter return c & 0xf and leaves
\* instance unchanged; assigning instance = i makes the instance getter return
\* i & 0xf and leaves cr_flag unchanged; after cr_flag = 0xA and instance = 0x3
\* the flags byte is 0xA3.
C5_IEv2FlagSetters ==
    ieSets # <<>> =>
        LET c == ieSets[1] IN
        /\ c.prop = "cr_flag" =>
              (cr_flag(ie) = c.v % 16 /\ instance(ie) = instance(c.before))
        /\ c.prop = "instance" =>
              (instance(ie) = c.v % 16 /\ cr_flag(ie) = cr_flag(c.before))
        /\ ( /\ Len(ieSets) = 2 /\ ieSets[2].before.flags = 0
             /\ ieSets[2].prop = "cr_flag" /\ ieSets[2].v = 10
             /\ c.prop = "instance" /\ c.v = 3 ) => ie.flags = 163

(***************************************************************************)
(* C6: a TV type without an entry in the length table.                     *)
(***************************************************************************)
\* the received bytes start with a type byte that has the high bit clear and
\* is no key of TV_LEN_DICT
UnknownTVType(b) == Len(b) >= 1 /\ b[1] < 128 /\ b[1] \notin DOMAIN TV_LEN_DICT

\* C6: decoding a GTPv1 IE whose type byte has the high bit clear and is not a
\* key of the TV length table fails with UnpackError; it never yields an IE.
C6_UnknownTVTypeIsRejected ==
    (ie.cls = "IEv1" /\ dec # NoResult /\ UnknownTVType(wire.bytes))
        => dec.status = "UnpackError"

(***************************************************************************)
(* C8, C9: GTPv1 IEs built from a type and a value.                        *)
(***************************************************************************)
\* C8: a TLV-form GTPv1 IE (type high bit set) constructed from a type and an
\* n-byte value encodes to the type byte, a 2-byte big-endian length n and the
\* value; its len() is 3 + n; decoding those bytes gives the same type,
\* len = n and the same value.
C8_TLVEncodeDecode ==
    (ie.cls = "IEv1" /\ Constructed(ie) /\ ie.type >= 128) =>
        /\ IEv1_len(ie) = 3 + Len(ie.data)
        /\ wire # NoResult =>
              /\ wire.status = "ok"
              /\ wire.bytes = <<ie.type>> \o PackH(Len(ie.data)) \o ie.data
        /\ dec # NoResult =>
              /\ dec.status = "ok"
              /\ dec.ie.type = ie.type
              /\ dec.ie.len_attr = "int" /\ dec.ie.len = Len(ie.data)
              /\ dec.ie.data = ie.data

\* a TV-form IE whose value has the length the table gives its type
WellFormedTV(e) ==
    /\ e.cls = "IEv1" /\ Constructed(e)
    /\ e.type < 128 /\ e.type \in DOMAIN TV_LEN_DICT
    /\ Len(e.data) = TV_LEN_DICT[e.type]

\* C9: a TV-form GTPv1 IE (type high bit clear, type in the TV length table)
\* whose value has the table's length encodes to the type byte followed by the
\* value with no length field, has len() = 1 + value length, and decoding those
\* bytes returns the same type, the same value and len equal to the table
\* length; Recovery (0x0e) with value 05 encodes to 0e 05, and 0e 05 decodes to
\* type 14, data 05.
C9_TVEncodeDecode ==
    /\ WellFormedTV(ie) =>
        /\ IEv1_len(ie) = 1 + Len(ie.data)
        /\ wire # NoResult =>
              /\ wire.status = "ok"
              /\ wire.bytes = <<ie.type>> \o ie.data
              /\ (ie.type = 14 /\ ie.data = <<5>>) => wire.bytes = <<14, 5>>
        /\ dec # NoResult =>
              /\ dec.status = "ok"
              /\ dec.ie.type = ie.type
              /\ dec.ie.data = ie.data
              /\ dec.ie.len_attr = "int" /\ dec.ie.len = TV_LEN_DICT[ie.type]
    /\ (ie.cls = "IEv1" /\ wire = [status |-> "ok", bytes |-> <<14, 5>>] /\ dec # NoResult) =>
        /\ dec.status = "ok"
        /\ dec.ie.type = 14 /\ dec.ie.data = <<5>> /\ dec.ie.len = 1

\* IEv1(type=TV_PACKET_FLOW_ID, data of 2 bytes) was encoded and decoded back
C9_Witness ==
    /\ WellFormedTV(ie) /\ ie.type = 25 /\ Len(ie.data) = 2
    /\ wire.status = "ok"
    /\ dec # NoResult /\ dec.status = "ok" /\ dec.ie.data = ie.data

(***************************************************************************)
(* C10: the length field of an encoded GTPv2 IE.                           *)
(***************************************************************************)
\* C10: encoding a GTPv2 IE with an n-byte value produces exactly 4 + n bytes
\* (1 type, 2 length, 1 flags, n value) whose 2-byte big-endian length field
\* is n, whatever the IE's len field held before; afterwards the IE's len
\* field is n.
C10_IEv2LengthIsRecomputed ==
    [][ (ie.cls = "IEv2" /\ Constructed(ie) /\ wire = NoResult /\ wire' # NoResult) =>
            LET n == Len(ie.data) IN
            /\ wire'.status = "ok"
            /\ Len(wire'.bytes) = 4 + n
            /\ wire'.bytes[1] = ie.type
            /\ UnpackH(SubSeq(wire'.bytes, 2, 3)) = n
            /\ wire'.bytes[4] = ie.flags
            /\ SliceFrom(wire'.bytes, 4) = ie.data
            /\ ie'.len = n
            /\ ie' = [ie EXCEPT !.len = n] ]_vars

\* an IEv2 with a 3-byte value was encoded; its len, built as 0 or 7, is now 3
C10_Witness ==
    /\ ie.cls = "IEv2" /\ Constructed(ie)
    /\ wire # NoResult /\ wire.status = "ok"
    /\ Len(ie.data) = 3 /\ ie.len = 3
    /\ Len(wire.bytes) = 7

(***************************************************************************)
(* gtp_c.py: GTPv1C and GTPv2C                                             *)
(***************************************************************************)
\* struct.pack('>I', n), struct.unpack('>I', b)[0]
PackI(n) == << (n \div 16777216) % 256, (n \div 65536) % 256, (n \div 256) % 256, n % 256 >>
UnpackI(b) == ((b[1] * 256 + b[2]) * 256 + b[3]) * 256 + b[4]

\* struct.pack('3B', (n >> 16) & 0xff, (n >> 8) & 0xff, n & 0xff)
Pack3(n) == << (n \div 65536) % 256, (n \div 256) % 256, n % 256 >>

\* what the optional attributes of a message hold: "unset", "int", "bytes",
\* and for data / ies "list"
Kinds(teid, seqnum, npdu, next_type, data, ies) ==
    [teid |-> teid, seqnum |-> seqnum, npdu |-> npdu, next_type |-> next_type,
     data |-> data, ies |-> ies]

\* a message object: the header fields, the optional attributes, self.data
\* (a list of IEs, or the bytes in raw), self.ies, and data_is_ies: whether
\* data and ies are one and the same list (`self.data is self.ies`)
GtpObject(cls, flags, type, len, teid, seqnum, npdu, next_type, priority, data, ies, kinds, data_is_ies) ==
    [cls |-> cls, flags |-> flags, type |-> type, len |-> len, teid |-> teid,
     seqnum |-> seqnum, npdu |-> npdu, next_type |-> next_type, priority |-> priority,
     data |-> data, ies |-> ies, raw |-> <<>>, seqbytes |-> <<>>, kinds |-> kinds,
     data_is_ies |-> data_is_ies]

\* GTPv1C(flags..., type=, teid=, seqnum=, npdu=, next_type=); pkt.data = ies
GTPv1C_new(flags, type, teid, seqnum, npdu, next_type, ies) ==
    GtpObject("GTPv1C", flags, type, 0, teid, seqnum, npdu, next_type, 0, ies, <<>>,
              Kinds("int", "int", "int", "int", "list", "unset"), FALSE)

\* GTPv2C(flags..., type=, teid=, seqnum=); pkt.data = ies
GTPv2C_new(flags, type, teid, seqnum, ies) ==
    GtpObject("GTPv2C", flags, type, 0, teid, seqnum, 0, 0, 0, ies, <<>>,
              Kinds("int", "int", "unset", "unset", "list", "unset"), FALSE)

\* GTPv1C.__additionals
additionals(o) == BitAnd(o.flags, 7)

\* GTPv2C.t_flag
t_flag(o) == BitAnd(o.flags \div 8, 1)

\* len(ie), bytes(ie) by the element's class
IELen(e) == IF e.cls = "IEv1" THEN IEv1_len(e) ELSE IEv2_len(e)
IEBytes(e) == IF e.cls = "IEv1" THEN IEv1_bytes(e) ELSE IEv2_bytes(e)

\* the IE loop of unpack: `while self.data: ie = IE(self.data); ...`
RECURSIVE DecodeIEs(_, _)
DecodeIEs(cls, data) ==
    IF data = <<>> THEN [status |-> "ok", ies |-> <<>>]
    ELSE LET r == IF cls = "GTPv1C" THEN IEv1_unpack(data) ELSE IEv2_unpack(data) IN
         IF r.status # "ok" THEN [status |-> r.status]
         ELSE LET rest == DecodeIEs(cls, SliceFrom(data, IELen(r.ie))) IN
              IF rest.status # "ok" THEN rest
              ELSE [status |-> "ok", ies |-> <<r.ie>> \o rest.ies]

\* b''.join([bytes(ie) for ie in ies])
RECURSIVE JoinIEs(_)
JoinIEs(ies) ==
    IF ies = <<>> THEN [status |-> "ok", bytes |-> <<>>]
    ELSE LET b == IEBytes(ies[1]) IN
         IF b.status # "ok" THEN [status |-> b.status]
         ELSE LET rest == JoinIEs(Tail(ies)) IN
              IF rest.status # "ok" THEN rest
              ELSE [status |-> "ok", bytes |-> b.bytes \o rest.bytes]

\* the position of the first IE whose bytes() raises, Len(ies) + 1 if none does
FirstFailing(ies) ==
    IF \A i \in 1..Len(ies) : IEBytes(ies[i]).status = "ok" THEN Len(ies) + 1
    ELSE CHOOSE i \in 1..Len(ies) :
            /\ IEBytes(ies[i]).status # "ok"
            /\ \A j \in 1..(i - 1) : IEBytes(ies[j]).status = "ok"

\* the IEs after `[bytes(ie) for ie in ies]` ran or raised: IEv2.pack_hdr stored
\* the len of every IEv2 up to the first IE that raises, that one included
AfterBytes(ies) ==
    LET upto(k) == [i \in 1..Len(ies) |->
                       IF ies[i].cls = "IEv2" /\ i <= k THEN IEv2_pack_hdr(ies[i]).ie
                       ELSE ies[i]]
    IN  upto(FirstFailing(ies))

\* `self.data is self.ies`: unpack ends with `self.data = self.ies = l`; the two
\* stay one list until data is assigned again
SameList(o) == o.data_is_ies /\ o.kinds.data = "list" /\ o.kinds.ies = "list"

\* the message after bytes() ran, or raised, over the IEs of self.data
AfterDataBytes(o) ==
    LET with(l) == [o EXCEPT !.data = l, !.ies = IF SameList(o) THEN l ELSE o.ies]
    IN  with(AfterBytes(o.data))

\* the message after bytes() ran, or raised, over the IEs of self.ies
AfterIesBytes(o) ==
    LET with(l) == [o EXCEPT !.ies = l, !.data = IF SameList(o) THEN l ELSE o.data]
    IN  with(AfterBytes(o.ies))

\* GTPv1C(buf): Packet.__init__ running GTPv1C.unpack
GTPv1C_unpack(buf) ==
    IF Len(buf) < 8 THEN [status |-> PacketInitError(buf, 8)]
    ELSE LET flags == buf[1]
             data  == SliceFrom(buf, 8)
             add   == BitAnd(flags, 7) # 0
         IN  IF add /\ Len(data) < 4 THEN [status |-> "IndexError"]
             ELSE LET r == DecodeIEs("GTPv1C", IF add THEN SliceFrom(data, 4) ELSE data)
                      k == IF add THEN "int" ELSE "unset"
                  IN  IF r.status # "ok" THEN [status |-> r.status]
                      ELSE [status |-> "ok",
                            m |-> GtpObject("GTPv1C", flags, buf[2], UnpackH(Slice(buf, 2, 4)),
                                     UnpackI(Slice(buf, 4, 8)),
                                     IF add THEN data[1] * 256 + data[2] ELSE 0,
                                     IF add THEN data[3] ELSE 0,
                                     IF add THEN data[4] ELSE 0,
                                     0, r.ies, r.ies,
                                     Kinds("int", k, k, k, "list", "list"), TRUE)]

\* the error of `self.seqnum >> 8` and the like when the attribute is no integer
AttrError(kind) == IF kind = "unset" THEN "AttributeError" ELSE "TypeError"

\* Packet.pack_hdr of a GTPv1C (flags, type, len, teid) and of a GTPv2C (flags,
\* type, len): PackError when len does not fit the 'H' of the header
V1Header(o) ==
    IF o.len > 65535 THEN [status |-> "PackError", m |-> o]
    ELSE [status |-> "ok", m |-> o,
          bytes |-> <<o.flags, o.type>> \o PackH(o.len) \o PackI(o.teid)]
V2Header(o) ==
    IF o.len > 65535 THEN [status |-> "PackError", m |-> o]
    ELSE [status |-> "ok", m |-> o, bytes |-> <<o.flags, o.type>> \o PackH(o.len)]

\* GTPv1C.pack_hdr: the header bytes, and the object as the call leaves it
GTPv1C_pack_hdr(o) ==
    IF o.kinds.data # "list"
    THEN V1Header(o)
    ELSE LET joined(j, a) ==
               LET seq == << (o.seqnum \div 256) % 256, o.seqnum % 256 >>
                   \* self.seqnum, then self.npdu, already hold their packed bytes
                   a1 == [a EXCEPT !.seqbytes = seq, !.kinds.seqnum = "bytes"]
                   a2 == [a1 EXCEPT !.kinds.npdu = "bytes"]
               IN
               IF j.status # "ok" THEN [status |-> j.status, m |-> a]
               ELSE IF additionals(o) # 0
               THEN IF o.kinds.seqnum # "int" THEN [status |-> AttrError(o.kinds.seqnum), m |-> a]
                    ELSE IF o.kinds.npdu # "int" THEN [status |-> AttrError(o.kinds.npdu), m |-> a1]
                    ELSE IF o.kinds.next_type # "int"
                         THEN [status |-> AttrError(o.kinds.next_type), m |-> a2]
                    ELSE LET raw == seq \o << o.npdu % 256 >> \o << o.next_type % 256 >> \o j.bytes
                             o1  == [a EXCEPT !.raw = raw, !.seqbytes = seq, !.len = Len(raw),
                                              !.kinds.seqnum = "bytes", !.kinds.npdu = "bytes",
                                              !.kinds.next_type = "bytes", !.kinds.data = "bytes",
                                              !.data_is_ies = FALSE]
                         IN  V1Header(o1)
               ELSE LET o1 == [a EXCEPT !.raw = j.bytes, !.seqbytes = <<>>, !.len = Len(j.bytes),
                                        !.kinds.seqnum = "bytes", !.kinds.npdu = "bytes",
                                        !.kinds.next_type = "bytes", !.kinds.data = "bytes",
                                        !.data_is_ies = FALSE]
                    IN  V1Header(o1)
         IN  joined(JoinIEs(o.data), AfterDataBytes(o))

\* GTPv1C.__bytes__: bytes of every IE of self.ies, then pack_hdr() + their join
GTPv1C_bytes(o) ==
    IF o.kinds.ies = "unset" THEN [status |-> "AttributeError", m |-> o]
    ELSE LET packed(j, h) ==
                 IF h.status # "ok" THEN [status |-> h.status, m |-> h.m]
                 ELSE [status |-> "ok", m |-> h.m, bytes |-> h.bytes \o j.bytes]
             joined(j, o0) ==
                 IF j.status # "ok" THEN [status |-> j.status, m |-> o0]
                 ELSE packed(j, GTPv1C_pack_hdr(o0))
         IN  joined(JoinIEs(o.ies), AfterIesBytes(o))

\* GTPv2C(buf): Packet.__init__ running GTPv2C.unpack
GTPv2C_unpack(buf) ==
    IF Len(buf) < 4 THEN [status |-> PacketInitError(buf, 4)]
    ELSE LET flags == buf[1]
             data  == SliceFrom(buf, 4)
             t     == BitAnd(flags \div 8, 1) = 1
         IN  IF t /\ Len(data) < 8 THEN [status |-> "IndexError"]
             ELSE LET r == DecodeIEs("GTPv2C", IF t THEN SliceFrom(data, 8)
                                                    ELSE SliceFrom(data, 5))
                  IN  IF r.status # "ok" THEN [status |-> r.status]
                      ELSE IF t
                      THEN [status |-> "ok",
                            m |-> GtpObject("GTPv2C", flags, buf[2], UnpackH(Slice(buf, 2, 4)),
                                     UnpackI(Slice(data, 0, 4)),
                                     (data[5] * 256 + data[6]) * 256 + data[7],
                                     0, 0, BitAnd(data[8] \div 16, 15), r.ies, r.ies,
                                     Kinds("int", "int", "unset", "unset", "list", "list"),
                                     TRUE)]
                      ELSE [status |-> "ok",
                            m |-> [GtpObject("GTPv2C", flags, buf[2], UnpackH(Slice(buf, 2, 4)),
                                     0, 0, 0, 0, 0, r.ies, r.ies,
                                     Kinds("unset", "bytes", "unset", "unset", "list", "list"),
                                     TRUE)
                                   EXCEPT !.seqbytes = Slice(data, 0, 3)]]

\* GTPv2C.pack_hdr: the header bytes, and the object as the call leaves it
GTPv2C_pack_hdr(o) ==
    IF o.kinds.data # "list"
    THEN V2Header(o)
    ELSE LET joined(j, a) ==
               IF j.status # "ok" THEN [status |-> j.status, m |-> a]
               ELSE IF o.kinds.seqnum # "int" THEN [status |-> AttrError(o.kinds.seqnum), m |-> a]
               ELSE LET seq == Pack3(o.seqnum)
                        o1  == [a EXCEPT !.seqbytes = seq, !.kinds.seqnum = "bytes"]
                    IN  IF t_flag(o) = 1
                        THEN IF o.kinds.teid # "int"
                             THEN [status |-> AttrError(o.kinds.teid), m |-> o1]
                             ELSE LET raw == PackI(o.teid) \o seq \o <<0>> \o j.bytes
                                      o2  == [o1 EXCEPT !.raw = raw, !.len = Len(raw),
                                                        !.kinds.teid = "bytes", !.kinds.data = "bytes",
                                                        !.data_is_ies = FALSE]
                                  IN  V2Header(o2)
                        ELSE LET raw == seq \o <<0>> \o j.bytes
                                 o2  == [o1 EXCEPT !.raw = raw, !.len = Len(raw),
                                                   !.kinds.data = "bytes",
                                                   !.data_is_ies = FALSE]
                             IN  V2Header(o2)
         IN  joined(JoinIEs(o.data), AfterDataBytes(o))

\* GTPv2C.__bytes__
GTPv2C_bytes(o) ==
    IF o.kinds.ies = "unset" THEN [status |-> "AttributeError", m |-> o]
    ELSE LET packed(j, h) ==
                 IF h.status # "ok" THEN [status |-> h.status, m |-> h.m]
                 ELSE [status |-> "ok", m |-> h.m, bytes |-> h.bytes \o j.bytes]
             joined(j, o0) ==
                 IF j.status # "ok" THEN [status |-> j.status, m |-> o0]
                 ELSE packed(j, GTPv2C_pack_hdr(o0))
         IN  joined(JoinIEs(o.ies), AfterIesBytes(o))

GtpBytes(o) == IF o.cls = "GTPv1C" THEN GTPv1C_bytes(o) ELSE GTPv2C_bytes(o)
GtpUnpack(cls, buf) == IF cls = "GTPv1C" THEN GTPv1C_unpack(buf) ELSE GTPv2C_unpack(buf)

\* ---- the messages the model builds and receives ----
GtpV1Flags == {48, 50}
GtpV2Flags == {64, 72}
GtpTypes == {16}
GtpTeids == {0, 16}
GtpSeqnums == {10, 4660}
GtpNpdus == {0, 202}

\* the IEs a caller puts in pkt.data (test_pack puts IEv2 objects in both)
GtpIEs == {IEv1_new(14, <<5>>), IEv1_new(131, <<5, 170>>),
           IEv2_new(1, 0, 0, 0, 0, <<5, 170>>), IEv2_new(93, 7, 33, 0, 0, <<>>)}
GtpIELists == UNION {[1..n -> GtpIEs] : n \in 0..MaxIEs}

GtpPayloadBytes == {0, 1, 14, 131}
GtpPayloads == SeqsUpTo(GtpPayloadBytes, MaxPayload)
GtpV1Pre == {<<>>, <<0, 10, 202, 0>>}
GtpV2Pre == {<<>>, <<1, 0, 10, 0>>, <<0, 0, 0, 16, 1, 0, 10, 0>>}

GtpV1Wires ==
    {<<f, 16>> \o PackH(l) \o PackI(16) \o pre \o p :
        f \in GtpV1Flags, l \in {0, 4}, pre \in GtpV1Pre, p \in GtpPayloads}
GtpV2Wires ==
    {<<f, 32>> \o PackH(l) \o pre \o p :
        f \in GtpV2Flags, l \in {0, 4}, pre \in GtpV2Pre, p \in GtpPayloads}
GtpShortWires == {<<>>, <<50, 16, 0>>, <<72, 32, 0, 4, 0>>, <<50, 16, 0, 4, 0, 0, 0>>}

Received(b) == [status |-> "received", bytes |-> b]

\* the IEs _build_bearer_ctx_* put inside a Bearer Context: EBI, Bearer QoS
\* (shortened) and an F-TEID with an empty value
GTPV2_EBI == 73
GTPV2_BEARER_QOS == 80
GTPV2_IE_F_TEID == 87
GTPV2_IE_BEARER_CTX == 93
BearerInnerIEs ==
    {IEv2_new(GTPV2_EBI, 0, 0, 0, 0, <<5>>), IEv2_new(GTPV2_BEARER_QOS, 0, 0, 0, 0, <<60, 9>>),
     IEv2_new(GTPV2_IE_F_TEID, 0, 0, 0, 2, <<>>)}
BearerInnerLists == UNION {[1..n -> BearerInnerIEs] : n \in 0..MaxIEs}

\* _build_bearer_ctx_*: the grouped IE whose value is the joined inner IEs
BearerCtx(inner) == IEv2_new(GTPV2_IE_BEARER_CTX, 0, 0, 0, 0, JoinIEs(inner).bytes)

\* a GTPv2-C message whose first IE is a Bearer Context, followed by the bytes
\* in rest: with a TEID (flags 0x48) and without one (flags 0x40)
BearerWire(flags, inner, rest) ==
    LET pre == IF BitAnd(flags, 8) = 8 THEN <<0, 0, 0, 16, 0, 0, 10, 0>> ELSE <<0, 0, 10, 0>>
    IN  <<flags, 32>> \o PackH(Len(pre) + Len(IEv2_bytes(BearerCtx(inner)).bytes) + Len(rest))
        \o pre \o IEv2_bytes(BearerCtx(inner)).bytes \o rest
BearerRests == {<<>>, <<82, 0, 1, 0, 6>>}

InitGtp ==
    /\ IdleName /\ IdleFlags /\ IdleIE /\ IdleDns
    /\ mdec = NoResult /\ mout = NoResult
    /\ \/ /\ mwire = NoResult
          /\ \E f \in GtpV1Flags, ty \in GtpTypes, te \in GtpTeids, s \in GtpSeqnums,
                n \in GtpNpdus, l \in GtpIELists :
                m = GTPv1C_new(f, ty, te, s, n, 0, l)
       \/ /\ mwire = NoResult
          /\ \E f \in GtpV2Flags, ty \in GtpTypes, te \in GtpTeids, s \in GtpSeqnums,
                l \in GtpIELists :
                m = GTPv2C_new(f, ty, te, s, l)
       \/ /\ m = [cls |-> "GTPv1C"]
          /\ \E b \in GtpV1Wires \cup GtpShortWires : mwire = Received(b)
       \/ /\ m = [cls |-> "GTPv2C"]
          /\ \E b \in GtpV2Wires \cup GtpShortWires : mwire = Received(b)
       \/ \E f \in GtpV2Flags, inner \in BearerInnerLists, rest \in BearerRests :
             /\ m = [cls |-> "GTPv2C", inner |-> inner]
             /\ mwire = Received(BearerWire(f, inner, rest))

\* bytes(m) on a message built from fields
GtpEncode ==
    /\ Constructed(m) /\ mwire = NoResult
    /\ LET r == GtpBytes(m) IN
       /\ m' = r.m
       /\ mwire' = IF r.status = "ok" THEN [status |-> "ok", bytes |-> r.bytes]
                   ELSE [status |-> r.status]
    /\ UNCHANGED << un, op, lastSet, ie, ieSets, wire, dec, mdec, mout >>
    /\ UNCHANGED dnsVars

\* GTPv1C(buf) / GTPv2C(buf) on encoded or received bytes
GtpDecode ==
    /\ mwire.status \in {"ok", "received"} /\ mdec = NoResult
    /\ mdec' = GtpUnpack(m.cls, mwire.bytes)
    /\ UNCHANGED << un, op, lastSet, ie, ieSets, wire, dec, m, mwire, mout >>
    /\ UNCHANGED dnsVars

\* bytes(d) on the decoded message d
GtpReencode ==
    /\ mdec.status = "ok" /\ mout = NoResult
    /\ LET r == GtpBytes(mdec.m) IN
       mout' = IF r.status = "ok" THEN [status |-> "ok", bytes |-> r.bytes, m |-> r.m]
               ELSE [status |-> r.status, m |-> r.m]
    /\ UNCHANGED << un, op, lastSet, ie, ieSets, wire, dec, m, mwire, mdec >>
    /\ UNCHANGED dnsVars

\* the lists a caller assigns to the data of a decoded message
GtpAssignedLists == {<< IEv1_new(14, <<5>>) >>, << IEv2_new(1, 0, 0, 0, 0, <<5, 170>>) >>}

\* d.data = ies on the decoded message d, as the builders of gtpc_factory.py
\* end with `pkt.data = ies`: data holds a list of its own from then on
GtpSetData ==
    /\ mdec.status = "ok" /\ mout = NoResult
    /\ mdec.m.data_is_ies
    /\ \E l \in GtpAssignedLists :
          mdec' = [mdec EXCEPT !.m.data = l, !.m.kinds.data = "list",
                               !.m.data_is_ies = FALSE]
    /\ UNCHANGED << un, op, lastSet, ie, ieSets, wire, dec, m, mwire, mout >>
    /\ UNCHANGED dnsVars

NextGtp == GtpEncode \/ GtpDecode \/ GtpSetData \/ GtpReencode

SpecGtp == InitGtp /\ [][NextGtp]_vars

\* the (type, value) pairs of an IE list
IEPairs(ies) == [i \in 1..Len(ies) |-> << ies[i].type, ies[i].data >>]

\* C3: for every GTPv1-C or GTPv2-C message built from header fields and an
\* ordered list of IEs, encoding succeeds and decoding the encoding gives the
\* same message type, the same TEID when one is present, the same integer
\* sequence number and the same ordered (type, value) pairs of IEs.
C3_ConstructedRoundTrip ==
    [][ (Constructed(m) /\ mwire = NoResult /\ mwire' # NoResult) =>
          /\ mwire'.status = "ok"
          /\ LET d == GtpUnpack(m.cls, mwire'.bytes) IN
             /\ d.status = "ok"
             /\ d.m.type = m.type
             /\ (m.cls = "GTPv1C" \/ t_flag(m) = 1) => d.m.teid = m.teid
             /\ d.m.kinds.seqnum = "int"
             /\ (m.cls = "GTPv2C" \/ additionals(m) # 0) => d.m.seqnum = m.seqnum
             /\ IEPairs(d.m.data) = IEPairs(m.data) ]_vars

\* the layout C7 states for a GTPv1-C message o with E/S/PN set and IE bytes b
V1LayoutWithAdditionals(o, b) ==
    <<o.flags, o.type>> \o PackH(4 + Len(b)) \o PackI(o.teid)
       \o << (o.seqnum \div 256) % 256, o.seqnum % 256, o.npdu % 256, o.next_type % 256 >>
       \o b

\* C7: encoding a GTPv1-C message with at least one of E/S/PN set and a list of
\* IEs as data yields the 8-byte header, the 2-byte sequence number, the N-PDU
\* byte, the next-extension-type byte and the IEs in list order, and the length
\* field is 4 plus the number of IE bytes.  Stated for messages built from
\* fields and for decoded messages that are encoded again.
C7_V1EncodeLayout ==
    [][ /\ (Constructed(m) /\ m.cls = "GTPv1C" /\ mwire = NoResult /\ mwire' # NoResult
             /\ additionals(m) # 0 /\ JoinIEs(m.data).status = "ok") =>
                /\ mwire'.status = "ok"
                /\ mwire'.bytes = V1LayoutWithAdditionals(m, JoinIEs(m.data).bytes)
        /\ (mdec.status = "ok" /\ mout = NoResult /\ mout' # NoResult
             /\ mdec.m.cls = "GTPv1C" /\ additionals(mdec.m) # 0) =>
                /\ mout'.status = "ok"
                /\ mout'.bytes = V1LayoutWithAdditionals(mdec.m, JoinIEs(mdec.m.data).bytes)
      ]_vars

(***************************************************************************)
(* dns.py: pack_name, DNS.Q, DNS.RR, DNS.__bytes__, DNS.unpack             *)
(***************************************************************************)
\* RR types
DNS_A == 1
DNS_NS == 2
DNS_CNAME == 5
DNS_SOA == 6
DNS_NULL == 10
DNS_PTR == 12
DNS_HINFO == 13
DNS_MX == 15
DNS_TXT == 16
DNS_AAAA == 28
DNS_SRV == 33
DNS_OPT == 41
\* RR classes
DNS_IN == 1

\* bytes.upper(): ASCII a-z to A-Z
Upper(s) == [i \in 1..Len(s) |-> IF s[i] >= 97 /\ s[i] <= 122 THEN s[i] - 32 ELSE s[i]]

\* name.split(b'.') for a non-empty name
RECURSIVE SplitDot(_)
SplitDot(s) ==
    IF \A i \in 1..Len(s) : s[i] # 46 THEN << s >>
    ELSE LET i == CHOOSE k \in 1..Len(s) : s[k] = 46 /\ \A j \in 1..(k - 1) : s[j] # 46
         IN  << SubSeq(s, 1, i - 1) >> \o SplitDot(SubSeq(s, i + 1, Len(s)))

\* label_ptrs.get(key): None and 0 are both falsy, written 0
PtrGet(ptrs, key) == IF key \in DOMAIN ptrs THEN ptrs[key] ELSE 0

\* the `for i, label in enumerate(labels)` loop of pack_name from label i on
RECURSIVE PackLabels(_, _, _, _, _)
PackLabels(labels, i, off, buf, ptrs) ==
    IF i > Len(labels) THEN [status |-> "ok", bytes |-> buf, ptrs |-> ptrs]
    ELSE LET key == Upper(JoinDot(SubSeq(labels, i, Len(labels))))
             ptr == PtrGet(ptrs, key)
         IN  IF ptr = 0
             THEN LET p     == off + Len(buf)
                      ptrs1 == IF Len(key) > 1 /\ p < 49152 THEN (key :> p) @@ ptrs ELSE ptrs
                  IN  IF Len(labels[i]) > 255
                      THEN [status |-> "struct.error", ptrs |-> ptrs1]
                      ELSE PackLabels(labels, i + 1, off,
                                      buf \o << Len(labels[i]) >> \o labels[i], ptrs1)
             ELSE [status |-> "ok", bytes |-> buf \o PackH(BitOr(49152, ptr)), ptrs |-> ptrs]

\* pack_name(name, off, label_ptrs): the bytes, and label_ptrs as the call leaves it
pack_name(name, off, ptrs) ==
    PackLabels((IF name = <<>> THEN <<>> ELSE SplitDot(name)) \o << <<>> >>, 1, off, <<>>, ptrs)

\* DNS.Q(name=, type=, cls=)
Q(name, type, cls) == [name |-> name, type |-> type, cls |-> cls]

\* the type-specific attributes of an RR: attrs is the set of those that are
\* set, and each other field is the value of the attribute of that name;
\* tuple tells that preference is the 1-tuple struct.unpack returned. The
\* items of text are the characters (code points) of a str, or the bytes of
\* a bytes object
NoVal ==
    [attrs |-> {}, ip |-> <<>>, ip6 |-> <<>>, nsname |-> <<>>, cname |-> <<>>,
     ptrname |-> <<>>, mname |-> <<>>, rname |-> <<>>, serial |-> 0, refresh |-> 0,
     retry |-> 0, expire |-> 0, minimum |-> 0, preference |-> 0, tuple |-> FALSE,
     mxname |-> <<>>, text |-> <<>>, null |-> <<>>, priority |-> 0, weight |-> 0,
     port |-> 0, srvname |-> <<>>]

\* DNS.RR(name=, type=, cls=, ttl=, rdata=, ...): rlen keeps its default 4
RR(name, type, cls, ttl, rdata, val) ==
    [name |-> name, type |-> type, cls |-> cls, ttl |-> ttl, rlen |-> 4,
     rdata |-> rdata, val |-> val]

\* whether struct.pack takes n for an 'H' (16 bits) and for an 'I' (32 bits);
\* the integers of the model end below 2^32
FitsH(n) == n >= 0 /\ n <= 65535
FitsI(n) == n >= 0

\* b''.join(['%s%s' % (chr(len(x)), x) for x in self.text]): the list is built
\* first, and chr() refuses a length beyond the last code point (len(x) counts
\* the characters of a str and the bytes of a bytes object, the items of
\* text[i] in both cases); then a str item cannot be joined into bytes
TextJoin(text) ==
    IF \E i \in 1..Len(text) : Len(text[i]) >= 1114112 THEN [status |-> "ValueError"]
    ELSE IF text = <<>> THEN [status |-> "ok", bytes |-> <<>>]
    ELSE [status |-> "TypeError"]

\* the attribute a name-valued type reads
NameAttr(type) ==
    IF type = DNS_NS THEN "nsname" ELSE IF type = DNS_CNAME THEN "cname" ELSE "ptrname"

\* the five numbers of a SOA record and the three of a SRV record
SoaNumbers == {"serial", "refresh", "retry", "expire", "minimum"}
SrvNumbers == {"priority", "weight", "port"}

\* RR.pack_rdata(off, label_ptrs): the bytes, and label_ptrs as the call
\* leaves it, also when it raises
pack_rdata(rr, off, ptrs) ==
    LET v == rr.val
        raises(e, p) == [status |-> e, ptrs |-> p]
        plain(b) == [status |-> "ok", bytes |-> b, ptrs |-> ptrs]
        \* head + pack_name(...) once the name is packed
        after(head, n) ==
            IF n.status # "ok" THEN n
            ELSE [status |-> "ok", ptrs |-> n.ptrs, bytes |-> head \o n.bytes]
        \* the SOA value: mname, then rname, then the five numbers
        soa3(n1, n2) ==
            IF n2.status # "ok" THEN n2
            ELSE IF ~(SoaNumbers \subseteq v.attrs) THEN raises("AttributeError", n2.ptrs)
            ELSE IF \E a \in SoaNumbers : ~FitsI(v[a]) THEN raises("struct.error", n2.ptrs)
            ELSE [status |-> "ok", ptrs |-> n2.ptrs,
                  bytes |-> n1.bytes \o n2.bytes \o PackI(v.serial) \o PackI(v.refresh)
                            \o PackI(v.retry) \o PackI(v.expire) \o PackI(v.minimum)]
        soa2(n1) ==
            IF n1.status # "ok" THEN n1
            ELSE IF "rname" \notin v.attrs THEN raises("AttributeError", n1.ptrs)
            ELSE soa3(n1, pack_name(v.rname, off + Len(n1.bytes), n1.ptrs))
        text(j) ==
            IF j.status = "ok" THEN plain(j.bytes) ELSE raises(j.status, ptrs)
    IN
    IF rr.rdata # <<>> THEN plain(rr.rdata)
    ELSE IF rr.type = DNS_A
    THEN IF "ip" \in v.attrs THEN plain(v.ip) ELSE raises("AttributeError", ptrs)
    ELSE IF rr.type \in {DNS_NS, DNS_CNAME, DNS_PTR}
    THEN IF NameAttr(rr.type) \in v.attrs THEN pack_name(v[NameAttr(rr.type)], off, ptrs)
         ELSE raises("AttributeError", ptrs)
    ELSE IF rr.type = DNS_SOA
    THEN IF "mname" \notin v.attrs THEN raises("AttributeError", ptrs)
         ELSE soa2(pack_name(v.mname, off, ptrs))
    ELSE IF rr.type = DNS_MX
    THEN IF "preference" \notin v.attrs THEN raises("AttributeError", ptrs)
         ELSE IF v.tuple \/ ~FitsH(v.preference) THEN raises("struct.error", ptrs)
         ELSE IF "mxname" \notin v.attrs THEN raises("AttributeError", ptrs)
         ELSE after(PackH(v.preference), pack_name(v.mxname, off + 2, ptrs))
    ELSE IF rr.type \in {DNS_TXT, DNS_HINFO}
    THEN IF "text" \in v.attrs THEN text(TextJoin(v.text)) ELSE raises("AttributeError", ptrs)
    ELSE IF rr.type = DNS_AAAA
    THEN IF "ip6" \in v.attrs THEN plain(v.ip6) ELSE raises("AttributeError", ptrs)
    ELSE IF rr.type = DNS_SRV
    THEN IF ~(SrvNumbers \subseteq v.attrs) THEN raises("AttributeError", ptrs)
         ELSE IF \E a \in SrvNumbers : ~FitsH(v[a]) THEN raises("struct.error", ptrs)
         ELSE IF "srvname" \notin v.attrs THEN raises("AttributeError", ptrs)
         ELSE after(PackH(v.priority) \o PackH(v.weight) \o PackH(v.port),
                    pack_name(v.srvname, off + 6, ptrs))
    ELSE IF rr.type = DNS_OPT THEN plain(<<>>)
    ELSE raises("PackError", ptrs)

\* DNS.pack_q(buf, q)
pack_q(buf, q, ptrs) ==
    LET after(n) ==
            IF n.status # "ok" THEN n
            ELSE IF ~FitsH(q.type) \/ ~FitsH(q.cls)
            THEN [status |-> "struct.error", ptrs |-> n.ptrs]
            ELSE [status |-> "ok", ptrs |-> n.ptrs,
                  bytes |-> buf \o n.bytes \o PackH(q.type) \o PackH(q.cls)]
    IN  after(pack_name(q.name, Len(buf), ptrs))

\* a plausible slip: the base offset of the rdata leaves out the owner name
RdataBaseWithoutName(buf, name) == Len(buf) + 10

\* `len(buf) + len(name) + 10`: where the rdata of a record will begin
RdataBase(buf, name) == Len(buf) + Len(name) + 10

\* DNS.pack_rr(buf, rr): struct.pack('>HHIH', ...) raises when the type, the
\* class, the ttl or len(rdata) does not fit its field
pack_rr(buf, rr, ptrs) ==
    LET after_rdata(n, r) ==
            IF r.status # "ok" THEN r
            ELSE IF ~FitsH(rr.type) \/ ~FitsH(rr.cls) \/ ~FitsI(rr.ttl) \/ ~FitsH(Len(r.bytes))
            THEN [status |-> "struct.error", ptrs |-> r.ptrs]
            ELSE [status |-> "ok", ptrs |-> r.ptrs,
                  bytes |-> buf \o n.bytes \o PackH(rr.type) \o PackH(rr.cls) \o PackI(rr.ttl)
                            \o PackH(Len(r.bytes)) \o r.bytes]
        after_name(n) ==
            IF n.status # "ok" THEN n
            ELSE after_rdata(n, pack_rdata(rr, RdataBase(buf, n.bytes), n.ptrs))
    IN  after_name(pack_name(rr.name, Len(buf), ptrs))

\* the output and the label table once an entry of a list is packed
Packed(r) == [buf |-> r.bytes, ptrs |-> r.ptrs]

\* `for q in self.qd: buf = self.pack_q(buf, q)`.  trace is history: buf and
\* label_ptrs after each entry that was packed
RECURSIVE PackQs(_, _, _)
PackQs(qs, buf, ptrs) ==
    LET rest(r, s) == [s EXCEPT !.trace = << Packed(r) >> \o s.trace]
        next(r) == IF r.status # "ok"
                   THEN [status |-> r.status, ptrs |-> r.ptrs, trace |-> <<>>]
                   ELSE rest(r, PackQs(Tail(qs), r.bytes, r.ptrs))
    IN  IF qs = <<>> THEN [status |-> "ok", bytes |-> buf, ptrs |-> ptrs, trace |-> <<>>]
        ELSE next(pack_q(buf, qs[1], ptrs))

\* `for rr in getattr(self, x): buf = self.pack_rr(buf, rr)`
RECURSIVE PackRRs(_, _, _)
PackRRs(rrs, buf, ptrs) ==
    LET rest(r, s) == [s EXCEPT !.trace = << Packed(r) >> \o s.trace]
        next(r) == IF r.status # "ok"
                   THEN [status |-> r.status, ptrs |-> r.ptrs, trace |-> <<>>]
                   ELSE rest(r, PackRRs(Tail(rrs), r.bytes, r.ptrs))
    IN  IF rrs = <<>> THEN [status |-> "ok", bytes |-> buf, ptrs |-> ptrs, trace |-> <<>>]
        ELSE next(pack_rr(buf, rrs[1], ptrs))

\* a DNS object whose qd, an, ns, ar hold lists
DnsObject(id, flags, qd, an, ns, ar) ==
    [cls |-> "DNS", id |-> id, op |-> flags, qd |-> qd, an |-> an, ns |-> ns, ar |-> ar]

\* a plausible slip: the question and answer counts alone follow the lists
DnsHeaderTwoCounts(o) ==
    [status |-> "ok",
     bytes |-> PackH(o.id) \o PackH(o.op) \o PackH(Len(o.qd)) \o PackH(Len(o.an))
                  \o PackH(0) \o PackH(IF o.ar = <<>> THEN 0 ELSE 1)]

\* struct.pack(self.__hdr_fmt__, self.id, self.op, len(self.qd), len(self.an),
\*             len(self.ns), len(self.ar)): six 'H' fields
DnsHeader(o) ==
    IF \E n \in {o.id, o.op, Len(o.qd), Len(o.an), Len(o.ns), Len(o.ar)} : ~FitsH(n)
    THEN [status |-> "struct.error"]
    ELSE [status |-> "ok",
          bytes |-> PackH(o.id) \o PackH(o.op) \o PackH(Len(o.qd)) \o PackH(Len(o.an))
                       \o PackH(Len(o.ns)) \o PackH(Len(o.ar))]

\* DNS.__bytes__: label_ptrs is deleted on return and left behind by an
\* exception.  table is label_ptrs as the call last held it; trace is history:
\* buf and label_ptrs after each question and record that was packed
DNS_bytes(o) ==
    LET after_rrs(q, s) ==
            IF s.status # "ok"
            THEN [status |-> s.status, has_label_ptrs |-> TRUE, table |-> s.ptrs,
                  trace |-> q.trace \o s.trace]
            ELSE [status |-> "ok", bytes |-> s.bytes, has_label_ptrs |-> FALSE,
                  table |-> s.ptrs, trace |-> q.trace \o s.trace]
        after_qs(q) ==
            IF q.status # "ok"
            THEN [status |-> q.status, has_label_ptrs |-> TRUE, table |-> q.ptrs,
                  trace |-> q.trace]
            ELSE after_rrs(q, PackRRs(o.an \o o.ns \o o.ar, q.bytes, q.ptrs))
        after_hdr(h) ==
            IF h.status # "ok"
            THEN [status |-> h.status, has_label_ptrs |-> TRUE, table |-> <<>>,
                  trace |-> <<>>]
            ELSE after_qs(PackQs(o.qd, h.bytes, <<>>))
    IN  after_hdr(DnsHeader(o))

\* DNS.unpack_q(buf, off): the question, the new offset, the pointers followed
unpack_q(buf, off) ==
    LET fields(r, o) ==
            IF Len(Slice(buf, o, o + 4)) < 4 THEN [status |-> "struct.error"]
            ELSE [status |-> "ok", off |-> o + 4, jumps |-> r.jumps,
                  q |-> Q(r.result[1], UnpackH(Slice(buf, o, o + 2)),
                          UnpackH(Slice(buf, o + 2, o + 4)))]
        after(r) == IF r.status # "ok" THEN [status |-> r.status] ELSE fields(r, r.result[2])
    IN  after(unpack_name(buf, off))

\* codecs.encode(rdata, 'hex')
HexDigit(n) == IF n < 10 THEN 48 + n ELSE 87 + n
RECURSIVE HexOf(_)
HexOf(s) ==
    IF s = <<>> THEN <<>>
    ELSE << HexDigit(s[1] \div 16), HexDigit(s[1] % 16) >> \o HexOf(Tail(s))

\* codecs.decode(s, 'utf-8') of bytes that Utf8Valid accepts: the characters
\* (code points) of the str
RECURSIVE Utf8Decode(_)
Utf8Decode(s) ==
    IF s = <<>> THEN <<>>
    ELSE LET n == Utf8Need(s[1])
             c(k) == s[k] - 128
             char == IF n = 0 THEN s[1]
                     ELSE IF n = 1 THEN (s[1] - 192) * 64 + c(2)
                     ELSE IF n = 2 THEN (s[1] - 224) * 4096 + c(2) * 64 + c(3)
                     ELSE (s[1] - 240) * 262144 + c(2) * 4096 + c(3) * 64 + c(4)
         IN  << char >> \o Utf8Decode(SliceFrom(s, 1 + n))

\* the `while buf:` loop of the TXT / HINFO branch of unpack_rdata: the list
\* self.text as the loop leaves it, also when a segment does not decode
RECURSIVE UnpackText(_)
UnpackText(buf) ==
    LET join(x, rest) == [status |-> rest.status, text |-> << x >> \o rest.text]
        piece(n, x) ==
            IF ~Utf8Valid(x) THEN [status |-> "UnicodeDecodeError", text |-> <<>>]
            ELSE join(Utf8Decode(x), UnpackText(SliceFrom(buf, 1 + n)))
    IN  IF buf = <<>> THEN [status |-> "ok", text |-> <<>>]
        ELSE piece(buf[1], Slice(buf, 1, 1 + buf[1]))

\* the final `else` of unpack_rdata
UnsupportedOnUnpack(rr) == [status |-> "UnpackError", rr |-> rr]

\* RR.unpack_rdata(buf, off): the record with the attributes of its type set
\* and every other attribute as it was; when it raises, the record with the
\* attributes set before the exception
unpack_rdata(rr, buf, off) ==
    LET v == rr.val
        \* self.a = x
        set(w, a, x) == [w EXCEPT !.attrs = @ \cup {a}, ![a] = x]
        done(w) == [status |-> "ok", rr |-> [rr EXCEPT !.val = w]]
        raises(e, w) == [status |-> e, rr |-> [rr EXCEPT !.val = w]]
        \* self.a, off = unpack_name(...)
        named(r, a, w) ==
            IF r.status # "ok" THEN raises(r.status, w)
            ELSE done(set(w, a, r.result[1]))
        soa3(w, b) ==
            IF Len(b) < 20 THEN raises("struct.error", w)
            ELSE done([w EXCEPT !.attrs = @ \cup SoaNumbers,
                        !.serial = UnpackI(Slice(b, 0, 4)),
                        !.refresh = UnpackI(Slice(b, 4, 8)),
                        !.retry = UnpackI(Slice(b, 8, 12)),
                        !.expire = UnpackI(Slice(b, 12, 16)),
                        !.minimum = UnpackI(Slice(b, 16, 20))])
        soa2(w, r2) ==
            IF r2.status # "ok" THEN raises(r2.status, w)
            ELSE soa3(set(w, "rname", r2.result[1]),
                      Slice(buf, r2.result[2], r2.result[2] + 20))
        soa1(r1) ==
            IF r1.status # "ok" THEN raises(r1.status, v)
            ELSE soa2(set(v, "mname", r1.result[1]), unpack_name(buf, r1.result[2]))
        text(r) ==
            IF r.status # "ok" THEN raises(r.status, set(v, "text", r.text))
            ELSE done(set(v, "text", r.text))
    IN
    IF rr.type = DNS_A THEN done(set(v, "ip", rr.rdata))
    ELSE IF rr.type \in {DNS_NS, DNS_CNAME, DNS_PTR}
    THEN named(unpack_name(buf, off), NameAttr(rr.type), v)
    ELSE IF rr.type = DNS_SOA THEN soa1(unpack_name(buf, off))
    ELSE IF rr.type = DNS_MX
    THEN IF Len(Slice(rr.rdata, 0, 2)) < 2 THEN raises("struct.error", v)
         ELSE named(unpack_name(buf, off + 2), "mxname",
                    [set(v, "preference", UnpackH(Slice(rr.rdata, 0, 2)))
                        EXCEPT !.tuple = TRUE])
    ELSE IF rr.type \in {DNS_TXT, DNS_HINFO} THEN text(UnpackText(rr.rdata))
    ELSE IF rr.type = DNS_AAAA THEN done(set(v, "ip6", rr.rdata))
    ELSE IF rr.type = DNS_NULL THEN done(set(v, "null", HexOf(rr.rdata)))
    ELSE IF rr.type = DNS_SRV
    THEN IF Len(Slice(rr.rdata, 0, 6)) < 6 THEN raises("struct.error", v)
         ELSE named(unpack_name(buf, off + 6), "srvname",
                    [v EXCEPT !.attrs = @ \cup SrvNumbers,
                              !.priority = UnpackH(Slice(rr.rdata, 0, 2)),
                              !.weight = UnpackH(Slice(rr.rdata, 2, 4)),
                              !.port = UnpackH(Slice(rr.rdata, 4, 6))])
    ELSE IF rr.type = DNS_OPT THEN done(v)
    ELSE UnsupportedOnUnpack(rr)

\* DNS.unpack_rr(buf, off): the record, the new offset, the pointers followed
\* by the owner name and where the rdata lies
unpack_rr(buf, off) ==
    LET after_rdata(r, o1, rdlen, u) ==
            IF u.status # "ok" THEN [status |-> u.status]
            ELSE [status |-> "ok", rr |-> u.rr, off |-> o1 + rdlen,
                  jumps |-> r.jumps, span |-> << o1, o1 + rdlen >>]
        fixed(r, o1, h, rdlen) ==
            after_rdata(r, o1, rdlen,
                unpack_rdata([name |-> r.result[1], type |-> UnpackH(Slice(h, 0, 2)),
                              cls |-> UnpackH(Slice(h, 2, 4)), ttl |-> UnpackI(Slice(h, 4, 8)),
                              rlen |-> rdlen, rdata |-> Slice(buf, o1, o1 + rdlen),
                              val |-> NoVal],
                             buf, o1))
        header(r, o, h) ==
            IF Len(h) < 10 THEN [status |-> "struct.error"]
            ELSE fixed(r, o + 10, h, UnpackH(Slice(h, 8, 10)))
        after_name(r) ==
            IF r.status # "ok" THEN [status |-> r.status]
            ELSE header(r, r.result[2], Slice(buf, r.result[2], r.result[2] + 10))
    IN  after_name(unpack_name(buf, off))

\* `for _ in range(cnt): q, off = self.unpack_q(buf, off)`
RECURSIVE UnpackQs(_, _, _)
UnpackQs(buf, off, cnt) ==
    LET join(r, rest) ==
            IF rest.status # "ok" THEN rest
            ELSE [status |-> "ok", off |-> rest.off, list |-> << r.q >> \o rest.list,
                  jumps |-> {r.jumps[i] : i \in 1..Len(r.jumps)} \cup rest.jumps]
        next(r) ==
            IF r.status # "ok" THEN [status |-> r.status]
            ELSE join(r, UnpackQs(buf, r.off, cnt - 1))
    IN  IF cnt = 0 THEN [status |-> "ok", off |-> off, list |-> <<>>, jumps |-> {}]
        ELSE next(unpack_q(buf, off))

\* `for _ in range(cnt): rr, off = self.unpack_rr(buf, off)`
RECURSIVE UnpackRRs(_, _, _)
UnpackRRs(buf, off, cnt) ==
    LET join(r, rest) ==
            IF rest.status # "ok" THEN rest
            ELSE [status |-> "ok", off |-> rest.off, list |-> << r.rr >> \o rest.list,
                  jumps |-> {r.jumps[i] : i \in 1..Len(r.jumps)} \cup rest.jumps,
                  spans |-> {r.span} \cup rest.spans]
        next(r) ==
            IF r.status # "ok" THEN [status |-> r.status]
            ELSE join(r, UnpackRRs(buf, r.off, cnt - 1))
    IN  IF cnt = 0
        THEN [status |-> "ok", off |-> off, list |-> <<>>, jumps |-> {}, spans |-> {}]
        ELSE next(unpack_rr(buf, off))

\* what Packet.__init__ raises for an exception of unpack: struct.error becomes
\* NeedData or UnpackError, anything else passes through
InitError(status, buf) ==
    IF status = "struct.error" THEN PacketInitError(buf, 12) ELSE status

\* DNS(buf): Packet.__init__ running DNS.unpack.  end, jumps and spans are
\* history: where decoding stopped, the pointer targets followed by question
\* and owner names, and the [lo, hi) spans of the rdata fields
DNS_unpack(buf) ==
    LET cnt(k) == UnpackH(Slice(buf, 2 * k, 2 * k + 2))
        failed(r) == [status |-> InitError(r.status, buf)]
        after_ar(qs, an, ns, ar) ==
            IF ar.status # "ok" THEN failed(ar)
            ELSE [status |-> "ok",
                  m |-> DnsObject(cnt(0), cnt(1), qs.list, an.list, ns.list, ar.list),
                  end |-> ar.off,
                  jumps |-> qs.jumps \cup an.jumps \cup ns.jumps \cup ar.jumps,
                  spans |-> an.spans \cup ns.spans \cup ar.spans]
        after_ns(qs, an, ns) ==
            IF ns.status # "ok" THEN failed(ns)
            ELSE after_ar(qs, an, ns, UnpackRRs(buf, ns.off, cnt(5)))
        after_an(qs, an) ==
            IF an.status # "ok" THEN failed(an)
            ELSE after_ns(qs, an, UnpackRRs(buf, an.off, cnt(4)))
        after_qd(qs) ==
            IF qs.status # "ok" THEN failed(qs)
            ELSE after_an(qs, UnpackRRs(buf, qs.off, cnt(3)))
    IN  IF Len(buf) < 12 THEN [status |-> PacketInitError(buf, 12)]
        ELSE after_qd(UnpackQs(buf, 12, cnt(2)))

\* ---- the DNS messages the model builds and receives ----
\* 'aa', 'c.aa', 'b.aa'
Name_aa == << 97, 97 >>
Name_c_aa == << 99, 46, 97, 97 >>
Name_b_aa == << 98, 46, 97, 97 >>
DnsOwnerNames == {Name_aa, Name_c_aa}
DnsTargetNames == {Name_b_aa, Name_c_aa}

\* records built from typed fields (rdata left empty) and from raw rdata
RR_A(n) == RR(n, DNS_A, DNS_IN, 60, <<>>, [NoVal EXCEPT !.attrs = {"ip"}, !.ip = <<1, 2, 3, 4>>])
RR_CNAME(n, c) ==
    RR(n, DNS_CNAME, DNS_IN, 60, <<>>, [NoVal EXCEPT !.attrs = {"cname"}, !.cname = c])
RR_MX(n, p, x) ==
    RR(n, DNS_MX, DNS_IN, 60, <<>>,
       [NoVal EXCEPT !.attrs = {"preference", "mxname"}, !.preference = p, !.mxname = x])
RR_raw(n, type, rdata) == RR(n, type, DNS_IN, 60, rdata, NoVal)
RR_OPT == RR(<<>>, DNS_OPT, 4000, 0, <<>>, NoVal)

DnsRRs ==
    {RR_A(n) : n \in DnsOwnerNames}
    \cup {RR_CNAME(n, c) : n \in DnsOwnerNames, c \in DnsTargetNames}
    \cup {RR_MX(Name_aa, 10, Name_c_aa),
          RR_raw(Name_aa, DNS_TXT, <<1, 97>>),
          RR_raw(Name_aa, DNS_NULL, <<7>>),
          RR_raw(Name_aa, 99, <<7>>)}
DnsRRLists == UNION {[1..n -> DnsRRs] : n \in 0..MaxRRs}

\* a record of a given type built from its typed fields alone, as the
\* test_rdata_* tests build them (rdata keeps its default b'')
RR_typed(type, val) ==
    RR(IF type = DNS_OPT THEN <<>> ELSE Name_aa, type, DNS_IN, 60, <<>>, val)

\* records of a type outside the DNS_* table, without and with rdata
DnsUnsupportedRRs == {RR_raw(Name_aa, 99, <<>>), RR_raw(Name_aa, 99, <<7>>)}

\* one record from fields for each type of the DNS_* table
DnsTypedRRs ==
    {RR_typed(DNS_A, [NoVal EXCEPT !.attrs = {"ip"}, !.ip = <<1, 2, 3, 4>>]),
     RR_typed(DNS_NS, [NoVal EXCEPT !.attrs = {"nsname"}, !.nsname = Name_b_aa]),
     RR_typed(DNS_CNAME, [NoVal EXCEPT !.attrs = {"cname"}, !.cname = Name_c_aa]),
     RR_typed(DNS_PTR, [NoVal EXCEPT !.attrs = {"ptrname"}, !.ptrname = Name_b_aa]),
     RR_typed(DNS_SOA, [NoVal EXCEPT !.attrs = {"mname", "rname"} \cup SoaNumbers,
                                     !.mname = Name_b_aa, !.rname = Name_c_aa,
                                     !.serial = 12345666, !.refresh = 123463,
                                     !.retry = 209834, !.expire = 28341, !.minimum = 9000]),
     RR_typed(DNS_NULL, [NoVal EXCEPT !.attrs = {"null"}, !.null = <<7>>]),
     RR_typed(DNS_HINFO, [NoVal EXCEPT !.attrs = {"text"}, !.text = << <<97>> >>]),
     RR_typed(DNS_MX, [NoVal EXCEPT !.attrs = {"preference", "mxname"},
                                    !.preference = 2124, !.mxname = Name_c_aa]),
     RR_typed(DNS_TXT, [NoVal EXCEPT !.attrs = {"text"}, !.text = << <<97>>, <<98, 99>> >>]),
     RR_typed(DNS_TXT, [NoVal EXCEPT !.attrs = {"text"}]),
     RR_typed(DNS_AAAA, [NoVal EXCEPT !.attrs = {"ip6"}, !.ip6 = [i \in 1..16 |-> i]]),
     RR_typed(DNS_SRV, [NoVal EXCEPT !.attrs = SrvNumbers \cup {"srvname"},
                                     !.priority = 0, !.weight = 5, !.port = 5060,
                                     !.srvname = Name_b_aa]),
     RR_typed(DNS_OPT, NoVal)}
\* records that lack an attribute their type reads: a SOA without rname, a SOA
\* without its numbers, an MX without mxname
DnsPartialRRs ==
    {RR_typed(DNS_SOA, [NoVal EXCEPT !.attrs = {"mname"}, !.mname = Name_b_aa]),
     RR_typed(DNS_SOA, [NoVal EXCEPT !.attrs = {"mname", "rname"},
                                     !.mname = Name_b_aa, !.rname = Name_c_aa]),
     RR_typed(DNS_MX, [NoVal EXCEPT !.attrs = {"preference"}, !.preference = 2124])}
DnsQLists == {<<>>, << Q(Name_aa, DNS_A, DNS_IN) >>, << Q(Name_b_aa, DNS_A, DNS_IN) >>}
DnsArLists == {<<>>, << RR_OPT >>}

\* byte strings received from the network: encodings with a byte appended or
\* the last byte missing, a header cut short, and two messages whose first
\* record has an empty rdata (an NS record and a NULL record, each followed by
\* an A record whose owner name is a pointer to the first owner name)
DnsOneRecord == {DnsObject(1, 33152, <<>>, << r >>, <<>>, <<>>) : r \in DnsRRs}
DnsEmptyRdata(type) ==
    << 0, 1, 129, 128, 0, 0, 0, 2, 0, 0, 0, 0,
       2, 97, 97, 0, 0, type, 0, 1, 0, 0, 0, 0, 0, 0,
       192, 12, 0, 1, 0, 1, 0, 0, 0, 0, 0, 4, 1, 2, 3, 4 >>

\* a query for 'aa' whose buffer ends inside the question's type / class or
\* inside the name, a response whose buffer ends inside the fixed fields of
\* its record, test_random_data, and a query whose label is the byte 0xff
DnsQuery_aa == << 0, 1, 1, 0, 0, 1, 0, 0, 0, 0, 0, 0, 2, 97, 97, 0, 0, 1, 0, 1 >>
DnsCutWires ==
    {Slice(DnsQuery_aa, 0, k) : k \in 13..20}
    \cup {Slice(DnsEmptyRdata(DNS_NULL), 0, k) : k \in 17..26}
    \cup {<< 131, 122, 48, 210, 154, 236, 148, 95, 55, 243, 183, 43, 133, 34, 63, 240, 251 >>,
          << 0, 1, 1, 0, 0, 1, 0, 0, 0, 0, 0, 0, 1, 255, 0, 0, 1, 0, 1 >>}

\* the rdata of a TXT record with the segment 'e' acute + 'a', and with the
\* segment 'a' followed by a segment that is no UTF-8
DnsTextRdatas == {<< 3, 195, 169, 97 >>, << 1, 97, 2, 195, 40 >>}

DnsWires ==
    {DNS_bytes(o).bytes \o <<0>> : o \in DnsOneRecord}
    \cup {DNS_bytes(DnsObject(1, 33152, <<>>, << RR_raw(Name_aa, DNS_TXT, t) >>, <<>>, <<>>)).bytes :
            t \in DnsTextRdatas}
    \cup {SubSeq(DNS_bytes(o).bytes, 1, Len(DNS_bytes(o).bytes) - 1) : o \in DnsOneRecord}
    \cup {<<0, 1, 129>>, DnsEmptyRdata(DNS_NS), DnsEmptyRdata(DNS_NULL)}
    \cup DnsCutWires

InitDns ==
    /\ IdleName /\ IdleFlags /\ IdleIE /\ IdleGtp
    /\ ddec = NoResult /\ dout = NoResult
    /\ \/ /\ dwire = NoResult
          /\ \E id \in {1}, flags \in {256, 33152}, qd \in DnsQLists, an \in DnsRRLists,
                ar \in DnsArLists :
                dns = DnsObject(id, flags, qd, an, <<>>, ar)
       \/ /\ dwire = NoResult
          /\ \E qd \in DnsQLists, r \in DnsTypedRRs \cup DnsUnsupportedRRs \cup DnsPartialRRs :
                dns = DnsObject(1, 33152, qd, << r >>, <<>>, <<>>)
       \/ /\ dns = NoObject
          /\ \E b \in DnsWires : dwire = Received(b)

\* bytes(dns) on a message built from fields
DnsEncode ==
    /\ dns # NoObject /\ dwire = NoResult
    /\ dwire' = DNS_bytes(dns)
    /\ UNCHANGED << dns, ddec, dout >>
    /\ UNCHANGED << un, op, lastSet >>
    /\ UNCHANGED ieVars
    /\ UNCHANGED gtpVars

\* DNS(buf) on encoded or received bytes
DnsDecode ==
    /\ dwire.status \in {"ok", "received"} /\ ddec = NoResult
    /\ ddec' = DNS_unpack(dwire.bytes)
    /\ UNCHANGED << dns, dwire, dout >>
    /\ UNCHANGED << un, op, lastSet >>
    /\ UNCHANGED ieVars
    /\ UNCHANGED gtpVars

\* bytes() on the decoded message, unmodified
DnsReencode ==
    /\ ddec.status = "ok" /\ dout = NoResult
    /\ dout' = DNS_bytes(ddec.m)
    /\ UNCHANGED << dns, dwire, ddec >>
    /\ UNCHANGED << un, op, lastSet >>
    /\ UNCHANGED ieVars
    /\ UNCHANGED gtpVars

NextDns == DnsEncode \/ DnsDecode \/ DnsReencode

SpecDns == InitDns /\ [][NextDns]_vars

\* C2: every message whose names are compressed the way pack_name compresses
\* them (here: every message bytes() itself produced from fields) and that
\* decodes successfully is reproduced byte for byte by decoding it and encoding
\* the unmodified result.
C2_RoundTrip ==
    (dwire.status = "ok" /\ ddec.status = "ok" /\ dout # NoResult) =>
        (dout.status = "ok" /\ dout.bytes = dwire.bytes)


(***************************************************************************)
(* The flag properties of the GTPv1-C and GTPv2-C headers.                 *)
(***************************************************************************)
\* GTPv1C.version / GTPv2C.version
version(o) == BitAnd(o.flags \div 32, 7)
version_setter(o, v) == [o EXCEPT !.flags = BitOr(BitClear(o.flags, 224), BitAnd(v, 7) * 32)]

\* GTPv1C.proto_type
proto_type(o) == BitAnd(o.flags \div 16, 1)
proto_type_setter(o, p) == [o EXCEPT !.flags = BitOr(BitClear(o.flags, 16), BitAnd(p, 1) * 16)]

\* GTPv1C.e_flag
e_flag(o) == BitAnd(o.flags \div 4, 1)
e_flag_setter(o, e) == [o EXCEPT !.flags = BitOr(BitClear(o.flags, 4), BitAnd(e, 1) * 4)]

\* GTPv1C.s_flag
s_flag(o) == BitAnd(o.flags \div 2, 1)
\* a plausible slip: the shift is forgotten and the bit lands in np_flag's place
s_flag_setter_unshifted(o, s) == [o EXCEPT !.flags = BitOr(BitClear(o.flags, 2), BitAnd(s, 1))]
s_flag_setter(o, s) == [o EXCEPT !.flags = BitOr(BitClear(o.flags, 2), BitAnd(s, 1) * 2)]

\* GTPv1C.np_flag
np_flag(o) == BitAnd(o.flags, 1)
np_flag_setter(o, n) == [o EXCEPT !.flags = BitOr(BitClear(o.flags, 1), BitAnd(n, 1))]

\* GTPv2C.p_flag
p_flag(o) == BitAnd(o.flags \div 16, 1)
p_flag_setter(o, p) == [o EXCEPT !.flags = BitOr(BitClear(o.flags, 16), BitAnd(p, 1) * 16)]

\* GTPv2C.t_flag (setter)
t_flag_setter(o, t) == [o EXCEPT !.flags = BitOr(BitClear(o.flags, 8), BitAnd(t, 1) * 8)]

\* the properties of each class, by name
GtpProps(cls) ==
    IF cls = "GTPv1C" THEN {"version", "proto_type", "e_flag", "s_flag", "np_flag"}
    ELSE {"version", "p_flag", "t_flag"}

GtpGet(p, o) ==
    CASE p = "version" -> version(o)
      [] p = "proto_type" -> proto_type(o)
      [] p = "e_flag" -> e_flag(o)
      [] p = "s_flag" -> s_flag(o)
      [] p = "np_flag" -> np_flag(o)
      [] p = "p_flag" -> p_flag(o)
      [] p = "t_flag" -> t_flag(o)

GtpSet(p, o, v) ==
    CASE p = "version" -> version_setter(o, v)
      [] p = "proto_type" -> proto_type_setter(o, v)
      [] p = "e_flag" -> e_flag_setter(o, v)
      [] p = "s_flag" -> s_flag_setter(o, v)
      [] p = "np_flag" -> np_flag_setter(o, v)
      [] p = "p_flag" -> p_flag_setter(o, v)
      [] p = "t_flag" -> t_flag_setter(o, v)

\* the bits of flags a property occupies, and how many they are
GtpMask(p) ==
    CASE p = "version" -> 224
      [] p \in {"proto_type", "p_flag"} -> 16
      [] p = "t_flag" -> 8
      [] p = "e_flag" -> 4
      [] p = "s_flag" -> 2
      [] p = "np_flag" -> 1
GtpWidth(p) == IF p = "version" THEN 3 ELSE 1

\* GTPv1C() / GTPv2C(): flags defaults to 0; GTPv1C(flags=0xff) has every bit set
GtpHeaderInits == {0, 255}
GtpFlagVals == {0, 1, 2, 9}

InitGtpFlags ==
    /\ \E cls \in {"GTPv1C", "GTPv2C"}, f \in GtpHeaderInits : m = [cls |-> cls, flags |-> f]
    /\ mwire = NoResult /\ mdec = NoResult /\ mout = NoResult
    /\ IdleName /\ IdleFlags /\ IdleIE /\ IdleDns

\* pkt.<p> = v on a header of class cls
SetGtpFlag(cls, p) ==
    /\ m.cls = cls
    /\ Len(lastSet) < MaxGtpSets
    /\ \E v \in GtpFlagVals :
        /\ m' = GtpSet(p, m, v)
        /\ lastSet' = << [prop |-> p, v |-> v, before |-> m] >> \o lastSet
    /\ UNCHANGED << un, op, mwire, mdec, mout >>
    /\ UNCHANGED ieVars
    /\ UNCHANGED dnsVars

SetV1_version == SetGtpFlag("GTPv1C", "version")
SetV1_proto_type == SetGtpFlag("GTPv1C", "proto_type")
SetV1_e_flag == SetGtpFlag("GTPv1C", "e_flag")
SetV1_s_flag == SetGtpFlag("GTPv1C", "s_flag")
SetV1_np_flag == SetGtpFlag("GTPv1C", "np_flag")
SetV2_version == SetGtpFlag("GTPv2C", "version")
SetV2_p_flag == SetGtpFlag("GTPv2C", "p_flag")
SetV2_t_flag == SetGtpFlag("GTPv2C", "t_flag")

NextGtpFlags ==
    \/ SetV1_version \/ SetV1_proto_type \/ SetV1_e_flag \/ SetV1_s_flag \/ SetV1_np_flag
    \/ SetV2_version \/ SetV2_p_flag \/ SetV2_t_flag

SpecGtpFlags == InitGtpFlags /\ [][NextGtpFlags]_vars

\* the setter calls made so far, oldest first, as (property, value) pairs
SetCalls == [i \in 1..Len(lastSet) |->
                << lastSet[Len(lastSet) + 1 - i].prop, lastSet[Len(lastSet) + 1 - i].v >>]

\* C15: after a GTPv1-C or GTPv2-C flag setter ran with v, its getter returns
\* v masked to the field's width, every other flag property and every other bit
\* of the flags byte keeps its value; on GTPv1C(), version = 1, proto_type = 1,
\* s_flag = 1 give flags 0x32, and on GTPv2C(), version = 2, t_flag = 1 give 0x48.
C15_GtpFlagSetters ==
    lastSet # <<>> =>
        /\ GtpGet(lastSet[1].prop, m) = lastSet[1].v % Pow2(GtpWidth(lastSet[1].prop))
        /\ \A q \in GtpProps(m.cls) \ {lastSet[1].prop} :
              GtpGet(q, m) = GtpGet(q, lastSet[1].before)
        /\ BitClear(m.flags, GtpMask(lastSet[1].prop))
              = BitClear(lastSet[1].before.flags, GtpMask(lastSet[1].prop))
        /\ (/\ m.cls = "GTPv1C" /\ lastSet[Len(lastSet)].before.flags = 0
            /\ SetCalls = << <<"version", 1>>, <<"proto_type", 1>>, <<"s_flag", 1>> >>)
              => m.flags = 50
        /\ (/\ m.cls = "GTPv2C" /\ lastSet[Len(lastSet)].before.flags = 0
            /\ SetCalls = << <<"version", 2>>, <<"t_flag", 1>> >>)
              => m.flags = 72

\* version, proto_type and s_flag were set on GTPv1C() as in test_gtpv1c_flag_setters
C15_Witness ==
    /\ m.cls = "GTPv1C" /\ Len(lastSet) = 3 /\ lastSet[3].before.flags = 0
    /\ SetCalls = << <<"version", 1>>, <<"proto_type", 1>>, <<"s_flag", 1>> >>
    /\ m.flags = 50

\* the message holds one answer record built from typed fields alone
HoldsTypedRecord(o) ==
    o # NoObject /\ Len(o.an) = 1 /\ o.ns = <<>> /\ o.ar = <<>> /\ o.an[1] \in DnsTypedRRs

\* the decoded record carries the name, type, class, ttl and typed value of the
\* record that was encoded
SameRecord(sent, got) ==
    /\ got.name = sent.name /\ got.type = sent.type /\ got.cls = sent.cls
    /\ got.ttl = sent.ttl
    /\ got.val = sent.val

\* C12: a message holding one record built from typed fields, of any type of
\* the DNS_* table, encodes successfully, and decoding the encoding yields a
\* record with the same name, type, class, ttl and typed value (the MX
\* preference as an integer, the text segments, the raw bytes).
C12_TypedRecordRoundTrip ==
    HoldsTypedRecord(dns) =>
        /\ dwire # NoResult => dwire.status = "ok"
        /\ ddec # NoResult =>
              (ddec.status = "ok" /\ Len(ddec.m.an) = 1 /\ SameRecord(dns.an[1], ddec.m.an[1]))

\* the types unpack_rdata and pack_rdata dispatch on
DnsTypes ==
    {DNS_A, DNS_NS, DNS_CNAME, DNS_SOA, DNS_NULL, DNS_PTR, DNS_HINFO, DNS_MX, DNS_TXT,
     DNS_AAAA, DNS_SRV, DNS_OPT}

\* the records of a message, in section order
Records(o) == o.an \o o.ns \o o.ar

\* the message built from fields holds a record of a type outside the table
\* whose rdata is empty / non-empty
HasUnsupported(o, withRdata) ==
    /\ o # NoObject
    /\ \E i \in 1..Len(Records(o)) :
          /\ Records(o)[i].type \notin DnsTypes
          /\ (Records(o)[i].rdata # <<>>) = withRdata

\* C13: a record of a type outside the table is always rejected: no decoded
\* message holds one, and encoding a message that holds one fails with
\* PackError, whatever the record's rdata holds.
C13_UnsupportedType ==
    /\ ddec.status = "ok" =>
          \A i \in 1..Len(Records(ddec.m)) : Records(ddec.m)[i].type \in DnsTypes
    /\ ((HasUnsupported(dns, TRUE) \/ HasUnsupported(dns, FALSE)) /\ dwire # NoResult) =>
          dwire.status = "PackError"

\* the sum of the on-wire lengths of a list of IEs
RECURSIVE InnerLength(_)
InnerLength(ies) == IF ies = <<>> THEN 0 ELSE IELen(ies[1]) + InnerLength(Tail(ies))

\* the decoded outer IE carries the joined inner IEs as its value, and the
\* IE loop over that value gives the inner IEs back
GroupedIEDecodes(inner, outer, nested) ==
    /\ outer.type = GTPV2_IE_BEARER_CTX
    /\ outer.data = JoinIEs(inner).bytes
    /\ outer.len = InnerLength(inner)
    /\ nested.status = "ok"
    /\ IEPairs(nested.ies) = IEPairs(inner)

\* C14: for a GTPv2-C message whose first IE is a Bearer Context holding the
\* concatenation of the serialized inner IEs i1..in, decoding the message
\* returns the outer IE with its value bytes unchanged and its length equal to
\* the sum of the inner IEs' on-wire lengths, and the IE loop run over that
\* value returns i1..in in order with the same types and values.
C14_GroupedIE ==
    ("inner" \in DOMAIN m /\ mdec # NoResult) =>
        /\ mdec.status = "ok"
        /\ Len(mdec.m.ies) >= 1
        /\ GroupedIEDecodes(m.inner, mdec.m.ies[1], DecodeIEs("GTPv2C", mdec.m.ies[1].data))

(***************************************************************************)
(* The F-TEID value codec (spec 4.7).  encode_fteid and decode_fteid are   *)
(* imported from gtp_c by gtpc_factory.py and test_gtp_c.py; their bodies  *)
(* are modelled from the layout of spec 4.7.  An address is its packed     *)
(* bytes, <<>> when the family is not supplied.                            *)
(***************************************************************************)
\* the flags byte: bit 7 IPv4 present, bit 6 IPv6 present, bits 5-0 interface type
FteidFlags(interface_type, ipv4, ipv6) ==
    (IF ipv4 # <<>> THEN 128 ELSE 0) + (IF ipv6 # <<>> THEN 64 ELSE 0)
    + BitAnd(interface_type, 63)

\* a plausible slip: the IPv6 address is written before the IPv4 address
encode_fteid_v6_first(teid, interface_type, ipv4, ipv6) ==
    IF ipv4 = <<>> /\ ipv6 = <<>> THEN [status |-> "ValueError"]
    ELSE [status |-> "ok",
          bytes |-> << FteidFlags(interface_type, ipv4, ipv6) >> \o PackI(teid) \o ipv6 \o ipv4]

\* encode_fteid(teid, interface_type, ipv4=None, ipv6=None)
encode_fteid(teid, interface_type, ipv4, ipv6) ==
    IF ipv4 = <<>> /\ ipv6 = <<>> THEN [status |-> "ValueError"]
    ELSE [status |-> "ok",
          bytes |-> << FteidFlags(interface_type, ipv4, ipv6) >> \o PackI(teid) \o ipv4 \o ipv6]

\* a plausible slip: the addresses are sliced without a length check
decode_fteid_unchecked(buf) ==
    IF Len(buf) < 5 THEN [status |-> "UnpackError"]
    ELSE LET v4 == BitAnd(buf[1], 128) = 128
             v6 == BitAnd(buf[1], 64) = 64
             o6 == IF v4 THEN 9 ELSE 5
         IN  [status |-> "ok", teid |-> UnpackI(Slice(buf, 1, 5)),
              interface_type |-> BitAnd(buf[1], 63),
              keys |-> (IF v4 THEN {"ipv4"} ELSE {}) \cup (IF v6 THEN {"ipv6"} ELSE {}),
              ipv4 |-> IF v4 THEN Slice(buf, 5, 9) ELSE <<>>,
              ipv6 |-> IF v6 THEN Slice(buf, o6, o6 + 16) ELSE <<>>]

\* decode_fteid(buf): keys are the address entries of the returned dict
decode_fteid(buf) ==
    IF Len(buf) < 5 THEN [status |-> "UnpackError"]
    ELSE LET v4 == BitAnd(buf[1], 128) = 128
             v6 == BitAnd(buf[1], 64) = 64
             o6 == IF v4 THEN 9 ELSE 5
         IN  IF v4 /\ Len(buf) < 9 THEN [status |-> "UnpackError"]
             ELSE IF v6 /\ Len(buf) < o6 + 16 THEN [status |-> "UnpackError"]
             ELSE [status |-> "ok", teid |-> UnpackI(Slice(buf, 1, 5)),
                   interface_type |-> BitAnd(buf[1], 63),
                   keys |-> (IF v4 THEN {"ipv4"} ELSE {}) \cup (IF v6 THEN {"ipv6"} ELSE {}),
                   ipv4 |-> IF v4 THEN Slice(buf, 5, 9) ELSE <<>>,
                   ipv6 |-> IF v6 THEN Slice(buf, o6, o6 + 16) ELSE <<>>]

\* the arguments of the tests: TEIDs, interface types (FTEID_S1U_ENB = 0,
\* FTEID_S11_MME = 10, FTEID_S11S4_SGW = 11, the largest code 63), 10.0.0.1
\* and 2001:db8::1
FteidTeids == {0, 4660, 2147483647}
FteidInterfaces == {0, 10, 11, 63}
FteidV4s == {<<>>, <<10, 0, 0, 1>>}
FteidV6s == {<<>>, <<32, 1, 13, 184, 0, 0, 0, 0, 0, 0, 0, 0, 0, 0, 0, 1>>}
FteidCall(teid, interface_type, ipv4, ipv6) ==
    [cls |-> "fteid", teid |-> teid, interface_type |-> interface_type,
     ipv4 |-> ipv4, ipv6 |-> ipv6]

\* received values: every prefix of an encoding, and an encoding with bytes after it
FteidEncodings ==
    {encode_fteid(4660, i, ab[1], ab[2]).bytes :
        i \in {10, 63}, ab \in (FteidV4s \X FteidV6s) \ {<< <<>>, <<>> >>}}
FteidWires ==
    {Slice(e, 0, k) : e \in FteidEncodings, k \in 0..25}
    \cup {e \o <<7, 7>> : e \in FteidEncodings} \cup {<<10, 0, 0, 18, 52>>}

InitFteid ==
    /\ IdleName /\ IdleFlags /\ IdleGtp /\ IdleDns
    /\ ieSets = <<>> /\ dec = NoResult
    /\ \/ /\ wire = NoResult
          /\ \E t \in FteidTeids, i \in FteidInterfaces, a \in FteidV4s, b \in FteidV6s :
                ie = FteidCall(t, i, a, b)
       \/ /\ ie = NoObject
          /\ \E b \in FteidWires : wire = Received(b)

\* encode_fteid(...) on the arguments
FteidEncode ==
    /\ ie # NoObject /\ wire = NoResult
    /\ wire' = encode_fteid(ie.teid, ie.interface_type, ie.ipv4, ie.ipv6)
    /\ UNCHANGED << ie, ieSets, dec, un, op, lastSet >>
    /\ UNCHANGED gtpVars
    /\ UNCHANGED dnsVars

\* decode_fteid(buf) on an encoded or received value
FteidDecode ==
    /\ wire.status \in {"ok", "received"} /\ dec = NoResult
    /\ dec' = decode_fteid(wire.bytes)
    /\ UNCHANGED << ie, ieSets, wire, un, op, lastSet >>
    /\ UNCHANGED gtpVars
    /\ UNCHANGED dnsVars

NextFteid == FteidEncode \/ FteidDecode

SpecFteid == InitFteid /\ [][NextFteid]_vars

\* C16: encode_fteid fails with ValueError exactly when neither address is
\* supplied; otherwise the encoding is the flags byte (bit 7 IPv4 present, bit
\* 6 IPv6 present, bits 5-0 the interface type), the 4-byte big-endian TEID,
\* then the 4-byte IPv4 and/or the 16-byte IPv6 in that order, and decode_fteid
\* of it returns the same TEID, interface type and exactly the supplied
\* addresses, with no entry for an absent family.
C16_FteidRoundTrip ==
    (ie # NoObject /\ wire # NoResult) =>
        /\ (wire.status = "ValueError") = (ie.ipv4 = <<>> /\ ie.ipv6 = <<>>)
        /\ wire.status \in {"ValueError", "ok"}
        /\ wire.status = "ok" =>
              /\ Len(wire.bytes) = 5 + Len(ie.ipv4) + Len(ie.ipv6)
              /\ BitAnd(wire.bytes[1], 128) = (IF ie.ipv4 # <<>> THEN 128 ELSE 0)
              /\ BitAnd(wire.bytes[1], 64) = (IF ie.ipv6 # <<>> THEN 64 ELSE 0)
              /\ BitAnd(wire.bytes[1], 63) = ie.interface_type
              /\ Slice(wire.bytes, 1, 5) = PackI(ie.teid)
              /\ Slice(wire.bytes, 5, 5 + Len(ie.ipv4)) = ie.ipv4
              /\ SliceFrom(wire.bytes, 5 + Len(ie.ipv4)) = ie.ipv6
        /\ dec # NoResult =>
              /\ dec.status = "ok"
              /\ dec.teid = ie.teid /\ dec.interface_type = ie.interface_type
              /\ dec.keys = {k \in {"ipv4", "ipv6"} : ie[k] # <<>>}
              /\ dec.ipv4 = ie.ipv4 /\ dec.ipv6 = ie.ipv6

\* a dual-stack F-TEID with the largest interface type was encoded and decoded
C16_Witness ==
    /\ ie # NoObject /\ ie.ipv4 # <<>> /\ ie.ipv6 # <<>> /\ ie.interface_type = 63
    /\ ie.teid = 2147483647
    /\ wire.status = "ok" /\ Len(wire.bytes) = 25
    /\ dec.status = "ok" /\ dec.keys = {"ipv4", "ipv6"}

\* the flags byte of the value marks a family whose address is cut short
AddressCutShort(buf) ==
    /\ Len(buf) >= 5
    /\ \/ BitAnd(buf[1], 128) = 128 /\ Len(buf) < 9
       \/ BitAnd(buf[1], 64) = 64
            /\ Len(buf) < (IF BitAnd(buf[1], 128) = 128 THEN 9 ELSE 5) + 16

\* C17: decode_fteid fails with UnpackError on every value shorter than 5
\* bytes and on every value whose flags byte marks an address family that is
\* not fully present after the TEID; a returned address is never truncated.
C17_FteidTruncation ==
    (wire.status \in {"ok", "received"} /\ dec # NoResult) =>
        /\ Len(wire.bytes) < 5 => dec.status = "UnpackError"
        /\ AddressCutShort(wire.bytes) => dec.status = "UnpackError"
        /\ dec.status \in {"ok", "UnpackError"}
        /\ dec.status = "ok" =>
              /\ "ipv4" \in dec.keys => Len(dec.ipv4) = 4
              /\ "ipv6" \in dec.keys => Len(dec.ipv6) = 16

\* a dual-stack value whose IPv6 address lost its last byte was rejected
C17_Witness ==
    /\ wire.status = "received" /\ Len(wire.bytes) = 24
    /\ BitAnd(wire.bytes[1], 192) = 192
    /\ dec.status = "UnpackError"

\* the decoded message is complete: decoding did not read past the end of the
\* buffer and every record holds as many rdata bytes as its length field says
CompleteMessage(r, buf) ==
    /\ r.end <= Len(buf)
    /\ \A i \in 1..Len(Records(r.m)) : Len(Records(r.m)[i].rdata) = Records(r.m)[i].rlen

\* C18: decoding a byte string as a DNS message either returns a complete
\* message or fails with NeedData or UnpackError, also when the buffer ends
\* inside a question's type / class, inside the fixed fields of a record or
\* inside its rdata; no other failure escapes and no partially filled message
\* is returned.
C18_DecodeFailsTyped ==
    ddec # NoResult =>
        \/ ddec.status \in {"NeedData", "UnpackError"}
        \/ ddec.status = "ok" /\ CompleteMessage(ddec, dwire.bytes)

\* unpack_name with its loop scheduled fairly: a call that can take its next
\* iteration takes it
SpecNameLive == InitName /\ [][NextName]_vars /\ WF_vars(NameLoop)

\* one iteration that keeps the loop running either follows a pointer to a
\* target strictly below the start of the segment being read, or moves the
\* cursor forward without leaving the segment's pointer chain
LoopProgress ==
    (un.status = "run" /\ un'.status = "run") =>
        \/ /\ Len(un'.jumps) = Len(un.jumps) + 1
           /\ un'.jumps[Len(un'.jumps)] < SegmentStart(un)
           /\ un'.off = un'.jumps[Len(un'.jumps)]
        \/ /\ un'.jumps = un.jumps
           /\ un'.off > un.off /\ un.off < Len(un.buf)

\* C19: for every buffer and start offset unpack_name terminates: the targets
\* of successively followed pointers are strictly decreasing, between two
\* jumps the cursor only moves forward, and the call eventually returns or raises.
C19_UnpackNameTerminates ==
    /\ [][LoopProgress]_vars
    /\ <>(un.status # "run")

\* a call that followed two pointers, the second below the first, and returned
C19_Witness ==
    /\ un.status = "ok" /\ Len(un.jumps) = 2 /\ un.jumps[2] < un.jumps[1]
    /\ un.jumps[1] < un.arg_off

\* the payload bytes GTPv2C.unpack took before the IE loop: what the IEs it
\* returned do not account for
ConsumedBeforeIEs(buf, r) == Len(buf) - 4 - InnerLength(r.m.ies)

\* the 24-bit big-endian integer of three bytes
Int24(b) == (b[1] * 256 + b[2]) * 256 + b[3]

\* C20: decoding a GTPv2-C message consumes, before IE parsing starts, exactly
\* 8 payload bytes when the T flag is set (TEID, 24-bit sequence number, spare
\* byte whose top 4 bits are the priority) and exactly 4 when it is clear
\* (3-byte sequence number and a spare byte); in both cases the decoded seqnum
\* is the 24-bit big-endian integer of the sequence-number bytes.
C20_V2Preamble ==
    (/\ m.cls = "GTPv2C" /\ mwire.status = "received" /\ mdec.status = "ok"
     /\ Len(mwire.bytes) >= 4 + (IF BitAnd(mwire.bytes[1], 8) = 8 THEN 8 ELSE 4)) =>
        IF BitAnd(mwire.bytes[1], 8) = 8
        THEN /\ ConsumedBeforeIEs(mwire.bytes, mdec) = 8
             /\ mdec.m.kinds.teid = "int" /\ mdec.m.teid = UnpackI(Slice(mwire.bytes, 4, 8))
             /\ mdec.m.kinds.seqnum = "int"
             /\ mdec.m.seqnum = Int24(Slice(mwire.bytes, 8, 11))
             /\ mdec.m.priority = BitAnd(At(mwire.bytes, 11) \div 16, 15)
        ELSE /\ ConsumedBeforeIEs(mwire.bytes, mdec) = 4
             /\ mdec.m.kinds.seqnum = "int"
             /\ mdec.m.seqnum = Int24(Slice(mwire.bytes, 4, 7))

\* every IE of the list holds as many value bytes as its length says (the TLV
\* length field, the TV_LEN_DICT entry, the IEv2 length field)
IEsAreComplete(ies) ==
    \A i \in 1..Len(ies) : ies[i].len_attr = "int" => Len(ies[i].data) = ies[i].len

\* C21: decoding the IE sequence of a GTPv1-C or GTPv2-C payload fails with a
\* decode error whenever the bytes left at the cursor do not form a complete
\* IE (fewer bytes than the IE header, or fewer value bytes than the declared
\* length); a successful decode never holds an IE whose value is shorter than
\* its declared length.
C21_TruncatedIERejected ==
    (mwire.status = "received" /\ mdec.status = "ok") => IEsAreComplete(mdec.m.ies)

(***************************************************************************)
(* pack_name called repeatedly on one label table, as one encode does.     *)
(* dns holds the length of the output so far and the table; dwire holds    *)
(* the latest call: its arguments, the table before it, and its result.    *)
(***************************************************************************)
\* 'aa', 'b.aa', 'c.aa', 'AA', 'c.b.aa', ''
PackNames == {Name_aa, Name_b_aa, Name_c_aa, << 65, 65 >>, << 99, 46, 98, 46, 97, 97 >>, <<>>}

\* where the first name of the model goes: the start of a buffer, after a DNS
\* header, and around the ends of the 14-bit range and of pack_name's own limit
PackOffsets == {0, 12, 16379, 16384, 49148, 49152}

\* the bytes the encoder writes between two names: type and class of a
\* question, or the 10 fixed bytes of a record and a 4-byte rdata
PackGaps == {4, 14}

InitPackName ==
    /\ IdleName /\ IdleFlags /\ IdleIE /\ IdleGtp
    /\ \E off \in PackOffsets : dns = [cls |-> "label_ptrs", off |-> off, ptrs |-> <<>>, calls |-> 0]
    /\ dwire = NoResult /\ ddec = NoResult /\ dout = NoResult

\* buf += pack_name(name, len(buf), label_ptrs), then the fixed bytes
PackNameCall ==
    /\ dns.calls < MaxCalls
    /\ \E name \in PackNames, gap \in PackGaps :
         LET after(r) ==
                /\ dwire' = [status |-> r.status, bytes |-> r.bytes, ptrs |-> r.ptrs,
                             name |-> name, off |-> dns.off, before |-> dns.ptrs]
                /\ dns' = [dns EXCEPT !.off = dns.off + Len(r.bytes) + gap,
                                      !.ptrs = r.ptrs, !.calls = dns.calls + 1]
         IN  after(pack_name(name, dns.off, dns.ptrs))
    /\ UNCHANGED << ddec, dout, un, op, lastSet >>
    /\ UNCHANGED ieVars
    /\ UNCHANGED gtpVars

NextPackName == PackNameCall

SpecPackName == InitPackName /\ [][NextPackName]_vars

\* the latest call ended its output with a compression pointer: the output is
\* shorter than the labels of the whole name and the terminator
EmittedPointer(c) ==
    c.status = "ok" /\ c.name # <<>> /\ Len(c.bytes) < Len(c.name) + 2

\* the 16-bit pointer the latest call emitted, and the suffix it stands for
PointerOf(c) == UnpackH(SliceFrom(c.bytes, Len(c.bytes) - 2))
SuffixKeyOf(c) == Upper(SliceFrom(c.name, Len(c.bytes) - 2)) \o << 46 >>

\* C22: pack_name never records in the label table, and never emits inside a
\* compression pointer, an offset of 0x4000 or more: every pointer it emits is
\* 0xC000 | o with o < 0x4000, so the low 14 bits of the pointer read back as
\* the offset at which the suffix was written.
C22_FourteenBitOffsets ==
    dwire.status = "ok" =>
        /\ \A k \in DOMAIN dwire.ptrs : dwire.ptrs[k] < 16384
        /\ EmittedPointer(dwire) =>
              /\ PointerOf(dwire) >= 49152
              /\ SuffixKeyOf(dwire) \in DOMAIN dwire.before
              /\ BitAnd(PointerOf(dwire), 16383) = dwire.before[SuffixKeyOf(dwire)]

\* bytes() ran on the message built from fields and finished, by returning
\* or by raising
EncodeFinished == dns # NoObject /\ dns.cls = "DNS" /\ dwire # NoResult

\* C23: every DNS message encode starts with an empty label table, and when
\* the call finishes, whether it returns bytes or fails with a pack error, no
\* table remains attached to the message object.
C23_LabelTableIsScoped ==
    /\ EncodeFinished => ~dwire.has_label_ptrs
    /\ dout # NoResult => ~dout.has_label_ptrs

\* the labels of a packed name, the empty terminating label included
LabelsOf(name) == (IF name = <<>> THEN <<>> ELSE SplitDot(name)) \o << <<>> >>

\* the table key of the suffix of a name that starts at its i-th label
SuffixKey(name, i) == Upper(JoinDot(SubSeq(LabelsOf(name), i, Len(LabelsOf(name)))))

\* the first n labels of a name, each behind its length byte
RECURSIVE LengthPrefixed(_, _)
LengthPrefixed(labels, n) ==
    IF n = 0 THEN <<>>
    ELSE LengthPrefixed(labels, n - 1) \o << Len(labels[n]) >> \o labels[n]

\* the suffix from label i on is non-empty and the table holds an offset below
\* 0x4000 for it
WrittenBefore(c, i) ==
    /\ i < Len(LabelsOf(c.name))
    /\ SuffixKey(c.name, i) \in DOMAIN c.before
    /\ c.before[SuffixKey(c.name, i)] < 16384

\* the call wrote the labels before label i and then a pointer to the offset
\* recorded for the suffix
PointsAtSuffix(c, i) ==
    c.bytes = LengthPrefixed(LabelsOf(c.name), i - 1)
                 \o PackH(49152 + c.before[SuffixKey(c.name, i)])

\* C24: once a non-empty suffix has been written as labels at an offset below
\* 0x4000, every later pack_name call for a name ending in that suffix
\* (compared case-insensitively) writes only the labels before the longest such
\* suffix and then the 2-byte pointer 0xC000|offset, and stops.
C24_SuffixWrittenOnce ==
    dwire.status = "ok" =>
        \A i \in 1..Len(LabelsOf(dwire.name)) :
            (WrittenBefore(dwire, i) /\ \A j \in 1..(i - 1) : ~WrittenBefore(dwire, j))
                => PointsAtSuffix(dwire, i)

\* where the on-wire representation of the name that starts at off ends: one
\* past its zero terminator, or two past its first pointer
RECURSIVE OnWireEnd(_, _)
OnWireEnd(buf, off) ==
    IF off >= Len(buf) THEN off
    ELSE IF At(buf, off) = 0 THEN off + 1
    ELSE IF BitAnd(At(buf, off), 192) = 192 THEN off + 2
    ELSE OnWireEnd(buf, off + 1 + At(buf, off))

\* C25: on success unpack_name returns the offset immediately following the
\* name's on-wire representation at its original position: one past the zero
\* terminator when no pointer was followed, otherwise two bytes past the first
\* pointer encountered, whatever was read after that jump.
C25_ReturnedOffset ==
    un.status = "ok" => un.result[2] = OnWireEnd(un.buf, un.arg_off)

\* a name was returned after two pointers were followed
C25_Witness ==
    /\ un.status = "ok"
    /\ Len(un.jumps) = 2
    /\ un.result[2] = OnWireEnd(un.buf, un.arg_off)

(***************************************************************************)
(* A decoded DNS message is changed through its lists and encoded again.   *)
(***************************************************************************)
\* the messages received: bytes() of one question and one typed record
DnsEditWires ==
    {DNS_bytes(o).bytes :
        o \in {p \in {DnsObject(1, 33152, qd, << r >>, <<>>, <<>>) :
                        qd \in DnsQLists \ {<<>>}, r \in DnsTypedRRs} :
                  DNS_bytes(p).status = "ok"}}

InitDnsEdit ==
    /\ IdleName /\ IdleFlags /\ IdleIE /\ IdleGtp
    /\ dns = [cls |-> "edits", n |-> 0]
    /\ \E b \in DnsEditWires : dwire = Received(b)
    /\ ddec = NoResult /\ dout = NoResult

\* the decoded message object becomes o
EditDecoded(o) ==
    /\ ddec.status = "ok" /\ dout = NoResult
    /\ dns.n < MaxEdits
    /\ ddec' = [ddec EXCEPT !.m = o]
    /\ dns' = [dns EXCEPT !.n = dns.n + 1]
    /\ UNCHANGED << dwire, dout, un, op, lastSet >>
    /\ UNCHANGED ieVars
    /\ UNCHANGED gtpVars

\* m.qd[0].name = 'c.aa'
DnsRenameQ ==
    /\ ddec.status = "ok" /\ ddec.m.qd # <<>>
    /\ EditDecoded([ddec.m EXCEPT !.qd[1].name = Name_c_aa])

\* m.qd.append(DNS.Q(name='b.aa'))
DnsAddQ == ddec.status = "ok" /\ EditDecoded([ddec.m EXCEPT !.qd = Append(@, Q(Name_b_aa, DNS_A, DNS_IN))])

\* del m.qd[0]
DnsRemoveQ ==
    /\ ddec.status = "ok" /\ ddec.m.qd # <<>>
    /\ EditDecoded([ddec.m EXCEPT !.qd = Tail(@)])

\* m.an.insert(0, rr), m.ns.append(rr), m.ar.append(rr) with a record built
\* from fields
DnsAddRR ==
    /\ ddec.status = "ok"
    /\ \/ EditDecoded([ddec.m EXCEPT !.an = << RR_CNAME(Name_aa, Name_c_aa) >> \o @])
       \/ EditDecoded([ddec.m EXCEPT !.ns = Append(@, RR_A(Name_aa))])
       \/ EditDecoded([ddec.m EXCEPT !.ar = Append(@, RR_OPT)])

\* del m.an[0]
DnsRemoveRR ==
    /\ ddec.status = "ok" /\ ddec.m.an # <<>>
    /\ EditDecoded([ddec.m EXCEPT !.an = Tail(@)])

NextDnsEdit ==
    DnsDecode \/ DnsRenameQ \/ DnsAddQ \/ DnsRemoveQ \/ DnsAddRR \/ DnsRemoveRR \/ DnsReencode

SpecDnsEdit == InitDnsEdit /\ [][NextDnsEdit]_vars

\* the four counts of a message header
HeaderCounts(buf) == [k \in 1..4 |-> UnpackH(Slice(buf, 2 + 2 * k, 4 + 2 * k))]

\* the lengths of the four lists of a message object
ListLengths(o) == << Len(o.qd), Len(o.an), Len(o.ns), Len(o.ar) >>

\* C26: encode writes the four header counts from the current lengths of the
\* question, answer, authority and additional lists: after decoding a message
\* and adding or removing entries, the re-encoded header counts equal the new
\* list lengths; after a successful decode each list length equals the
\* corresponding count of the input header.
C26_CountsFollowLists ==
    /\ (ddec.status = "ok" /\ dns.n = 0) =>
            ListLengths(ddec.m) = HeaderCounts(dwire.bytes)
    /\ (ddec.status = "ok" /\ dout # NoResult /\ dout.status = "ok") =>
            HeaderCounts(dout.bytes) = ListLengths(ddec.m)

\* entries were added and the encoded counts differ from the counts received
C26_Witness ==
    /\ ddec.status = "ok" /\ dns.n = MaxEdits
    /\ dout # NoResult /\ dout.status = "ok"
    /\ HeaderCounts(dout.bytes) = ListLengths(ddec.m)
    /\ HeaderCounts(dout.bytes)[3] = 1
    /\ HeaderCounts(dout.bytes) # HeaderCounts(dwire.bytes)

\* the name-valued attributes of a record
NameAttrs == << "nsname", "cname", "ptrname", "mname", "rname", "mxname", "srvname" >>

\* the names a message holds: of its questions, and of each record the owner
\* name and the names of its typed fields
NamesHeld(o) ==
    << [i \in 1..Len(o.qd) |-> o.qd[i].name],
       [i \in 1..Len(Records(o)) |->
           << Records(o)[i].name >>
           \o [k \in 1..Len(NameAttrs) |-> Records(o)[i].val[NameAttrs[k]]]] >>

\* decoding the bytes yields the names the message o held
DecodesToNamesOf(bytes, o) ==
    /\ DNS_unpack(bytes).status = "ok"
    /\ NamesHeld(DNS_unpack(bytes).m) = NamesHeld(o)

\* C28: in the bytes produced by encoding a DNS message every compression
\* pointer targets the labels of the intended suffix, so decoding the output
\* yields the names the message held; this also holds for a message that was
\* decoded, then changed and re-encoded.
C28_PointersHitTheirSuffix ==
    (ddec.status = "ok" /\ dout # NoResult /\ dout.status = "ok") =>
        DecodesToNamesOf(dout.bytes, ddec.m)

\* the name that begins at offset off of bytes is the suffix that key stands for
LabelsBeginAt(bytes, off, key) ==
    /\ unpack_name(bytes, off).status = "ok"
    /\ Upper(unpack_name(bytes, off).result[1] \o << 46 >>) = key

\* every entry of the label table ptrs names an offset of buf where the labels
\* of its suffix begin
TableNamesOffsets(buf, ptrs) ==
    \A key \in DOMAIN ptrs : LabelsBeginAt(buf, ptrs[key], key)

\* the label table q holds every entry of p, at the same offset
TableKept(p, q) == \A key \in DOMAIN p : key \in DOMAIN q /\ q[key] = p[key]

\* the output a is the beginning of the output b
BeginsWith(b, a) == Len(a) <= Len(b) /\ SubSeq(b, 1, Len(a)) = a

\* the label table over one run r of bytes(): after each question and record
\* packed every entry names its place in the output so far; the output and the
\* table only grow, so the entries name the same places of the final output;
\* what a record that raised left in the table lies behind the output
EncodeSteps(r) ==
    LET n == Len(r.trace) IN
    /\ \A i \in 1..n : TableNamesOffsets(r.trace[i].buf, r.trace[i].ptrs)
    /\ \A i \in 1..(n - 1) :
          /\ TableKept(r.trace[i].ptrs, r.trace[i + 1].ptrs)
          /\ BeginsWith(r.trace[i + 1].buf, r.trace[i].buf)
    /\ n > 0 => TableKept(r.trace[n].ptrs, r.table)
    /\ r.status = "ok" =>
          /\ TableNamesOffsets(r.bytes, r.table)
          /\ n > 0 => BeginsWith(r.bytes, r.trace[n].buf)
    /\ (r.status # "ok" /\ n > 0) =>
          \A key \in DOMAIN r.table :
              key \notin DOMAIN r.trace[n].ptrs => r.table[key] >= Len(r.trace[n].buf)

\* C27: during a message encode every (suffix -> offset) entry of the label
\* table names the byte offset of the final output at which the
\* length-prefixed labels of that suffix begin, for owner names and for names
\* inside rdata (SOA, MX, SRV base offsets included); checked after every
\* question and record packed, of encodes that finish and of encodes that raise.
C27_TableOffsets ==
    /\ EncodeFinished => EncodeSteps(dwire)
    /\ dout # NoResult => EncodeSteps(dout)

\* a SOA record from fields was encoded behind a question: the table holds its
\* second name
C27_Witness ==
    /\ EncodeFinished /\ dwire.status = "ok"
    /\ dns.qd # <<>> /\ Len(dns.an) = 1 /\ dns.an[1].type = DNS_SOA
    /\ Len(dwire.trace) = 2
    /\ Upper(Name_c_aa \o << 46 >>) \in DOMAIN dwire.table
    /\ EncodeSteps(dwire)

\* the header fields the encoders read as integers
IntFields == {"seqnum", "npdu", "next_type", "teid"}

\* the fields that held integers in o still hold integers in o1, and data still
\* holds the IE list
FieldsKept(o, o1) ==
    /\ \A f \in IntFields : o.kinds[f] = "int" => o1.kinds[f] = "int"
    /\ o1.seqnum = o.seqnum /\ o1.npdu = o.npdu
    /\ o1.next_type = o.next_type /\ o1.teid = o.teid
    /\ o1.kinds.data = "list"

\* C29: encoding a GTPv1-C or GTPv2-C message changes nothing on the message
\* but the derived length field: after bytes(m) the fields seqnum, npdu,
\* next_type and teid still hold the integers they held before and data still
\* holds the IE list, so encoding the same message twice in a row returns
\* identical bytes both times.
C29_EncodeKeepsFields ==
    (mdec.status = "ok" /\ mout # NoResult /\ mout.status = "ok") =>
        /\ FieldsKept(mdec.m, mout.m)
        /\ GtpBytes(mout.m).status = "ok"
        /\ GtpBytes(mout.m).bytes = mout.bytes

(***************************************************************************)
(* The IE loop of GTPv1C.unpack and GTPv2C.unpack, one iteration at a time *)
(***************************************************************************)
\* the payloads of the loop: the bytes of GtpPayloadBytes and 30, a TV type
\* that TV_LEN_DICT does not hold
IELoopPayloads == SeqsUpTo(GtpPayloadBytes \cup {30}, MaxPayload)

\* `l = []` before `while self.data:`, self.data holding the payload
InitIELoop ==
    /\ IdleName /\ IdleFlags /\ IdleIE /\ IdleDns
    /\ \E cls \in {"GTPv1C", "GTPv2C"}, p \in IELoopPayloads :
          /\ m = [cls |-> cls]
          /\ mwire = Received(p)
          /\ mdec = [status |-> "run", data |-> p, ies |-> <<>>]
    /\ mout = NoResult

\* the loop test and one pass through the body:
\* `ie = IE(self.data); l.append(ie); self.data = self.data[len(ie):]`
IELoopStep ==
    /\ mdec.status = "run"
    /\ LET after(r) ==
               mdec' = IF r.status # "ok" THEN [status |-> r.status, data |-> mdec.data]
                       ELSE [mdec EXCEPT !.data = SliceFrom(mdec.data, IELen(r.ie)),
                                         !.ies = Append(mdec.ies, r.ie)]
       IN  IF mdec.data = <<>>
           THEN mdec' = [status |-> "ok", data |-> <<>>, ies |-> mdec.ies]
           ELSE after(IF m.cls = "GTPv1C" THEN IEv1_unpack(mdec.data)
                                           ELSE IEv2_unpack(mdec.data))
    /\ UNCHANGED << un, op, lastSet, ie, ieSets, wire, dec, m, mwire, mout >>
    /\ UNCHANGED dnsVars

NextIELoop == IELoopStep

\* the loop is sequential code: an iteration that can run does run
SpecIELoop == InitIELoop /\ [][NextIELoop]_vars /\ WF_vars(IELoopStep)

\* an iteration that decodes an IE takes at least 1 byte (4 for GTPv2-C) off
\* the remaining payload
IETakesBytes ==
    (mdec.status = "run" /\ mdec'.status = "run") =>
        /\ Len(mdec'.ies) = Len(mdec.ies) + 1
        /\ IELen(mdec'.ies[Len(mdec'.ies)]) >= (IF m.cls = "GTPv2C" THEN 4 ELSE 1)
        /\ Len(mdec'.data) < Len(mdec.data)

\* C30: for every payload byte string the IE-list decode loops of
\* GTPv1C.unpack and GTPv2C.unpack terminate: every decoded IE has an on-wire
\* length of at least 1 byte (at least 4 for GTPv2), so the number of
\* remaining bytes strictly decreases on each iteration until it is 0 or an
\* error is raised.
C30_IELoopTerminates ==
    /\ [][IETakesBytes]_vars
    /\ <>(mdec.status # "run")
    /\ [](mdec.status = "ok" => (mdec.data = <<>> /\ DecodeIEs(m.cls, mwire.bytes).status = "ok"
                                  /\ DecodeIEs(m.cls, mwire.bytes).ies = mdec.ies))

\* the loop ended normally after decoding two IEs
C30_Witness ==
    /\ mdec.status = "ok"
    /\ Len(mdec.ies) = 2
    /\ mwire.bytes # <<>>

====
